---------------------------- MODULE Spec2Model ----------------------------
(***************************************************************************)
(* Log store + uploader pipeline of the ESP32-CAM face logger.             *)
(*                                                                         *)
(*   csv_logger.c   (src/hardware/components/storage/csv_logger.c)         *)
(*       the Log Store: s_log_buffer[MAX_LOG_ENTRIES], s_log_count,        *)
(*       guarded by s_csv_mutex                                            *)
(*   csv_uploader.c (src/unnamed/part_000)                                 *)
(*       the delivery task upload_task, the Offline Buffer, the Status     *)
(*       Register, guarded by s_status_mutex, and the trigger semaphore    *)
(*                                                                         *)
(* A face_log_entry_t is modelled by the three fields the pipeline itself  *)
(* reads or writes: timestamp, image_ptr and uptime_us.  The other fields  *)
(* (face_id, embedding, GPS, fleet strings) are copied by struct           *)
(* assignment and never inspected by the store or the delivery loop.       *)
(* uptime_us (esp_timer_get_time() at capture) is strictly increasing and  *)
(* so identifies a record.  An image pointer returned by malloc is         *)
(* modelled by the uptime of the record it was allocated for.              *)
(***************************************************************************)
EXTENDS Integers, Sequences, FiniteSets, TLC

\* ----------------------------------------------------------------- bounds
\* Number of csv_logger_log_face calls that get the lock (clock readings).
MaxEvents == 6
\* Number of transport requests (flushes and primary attempts) explored.
MaxRequests == 3
\* s_config.max_retries is 1 or MaxRetries.
MaxRetries == 3
\* The largest s_config.max_retries of the retry loop taken alone.
MaxSchedRetries == 24
\* s_config.offline_buffer_size is MinOfflineSize or MaxOfflineSize.
MinOfflineSize == 2
MaxOfflineSize == 5
\* Largest argument given to the Log Store API by a direct caller.
MaxArg == 5
\* calculate_backoff_delay is called with attempt in 0 .. MaxAttempt.
MaxAttempt == 33
\* Largest batch handed to upload_logs_to_server when it is called on its own.
MaxBatch == 2
\* max_batch_size of the configurations explored.
BatchCap == 2

\* ------------------------------------------------------ program constants
MAX_LOG_ENTRIES == 5
\* face_log_entry_t logs[5] of upload_task
LOGS_LEN == 5

PLACEHOLDER == "1970-01-01T00:00:00Z"
\* A timestamp formatted from a synchronized wall clock at capture.
WALLCLOCK == "wall"
\* A timestamp rewritten by the time repair of upload_logs_to_server.
REPAIRED == "repaired"

Slots == 0 .. (MAX_LOG_ENTRIES - 1)
Ptrs == 1 .. MaxEvents

\* memset(s_log_buffer, 0, ...) of csv_logger_init
ZeroEntry == [timestamp |-> "", image_ptr |-> 0, uptime_us |-> 0]

VARIABLES
    \* csv_logger.c
    s_log_buffer,        \* [Slots -> entry], the physical array, stale slots included
    s_log_count,
    s_csv_mutex,         \* "none" | "producer" | "uploader" | "caller"
    \* the C heap of image buffers
    allocated,           \* pointers malloc has returned
    free_calls,          \* [Ptrs -> number of free() calls on the pointer]
    \* clocks
    uptime,              \* last esp_timer_get_time() reading taken by log_face
    time_synced,         \* time() is past 2024-01-01
    \* csv_uploader.c
    s_config,            \* [max_retries, max_batch_size, enable_offline_buffering,
                         \*  offline_buffer_size]
    s_running,
    task_count,          \* upload tasks created by xTaskCreate
    s_trigger_sem,       \* binary semaphore: 0 | 1
    s_status,
    s_offline_buffer,    \* the first s_offline_buffer_count entries of the array
    s_offline_buffer_count,
    \* upload_task: position and locals
    pc_u,
    logs,                \* the first actual_count entries of logs[5]
    actual_count,
    retry_count,
    upload_success,
    mark_err,            \* last return value of csv_logger_mark_uploaded
    \* producer (face recognition task): position
    pc_p,
    \* history
    delivered,           \* uptimes contained in a request answered HTTP 200
    buffered,            \* uptimes copied into the Offline Buffer
    released,            \* uptimes removed by csv_logger_mark_uploaded
    lock_timed_out,      \* some xSemaphoreTake timed out
    admit_space,         \* space_available of the last add_to_offline_buffer
    admit_dropped,       \* some add_to_offline_buffer had to_add < count
    cycle_appends,       \* a record was appended since the last snapshot
    requests,            \* transport requests started
    cycle,               \* the current delivery cycle: the status and the
                         \* Offline Buffer at its snapshot, its requests
    \* one call of a function of csv_uploader.c on its own
    fn_args,             \* the arguments
    fn_result,           \* the value returned, <<>> before the call
    \* upload_task at the grain of its lock operations and requests
    s_status_mutex,      \* "none" | "uploader"
    in_flight,           \* transport requests started and not yet answered
    st_call,             \* the pending update_status_* call
    ret_u                \* where the task continues after a status update

store_vars == <<s_log_buffer, s_log_count, s_csv_mutex, allocated, free_calls,
                uptime, time_synced>>
uploader_vars == <<s_config, s_running, task_count, s_trigger_sem, s_status,
                   s_offline_buffer, s_offline_buffer_count>>
task_vars == <<pc_u, logs, actual_count, retry_count,
               upload_success, mark_err>>
history_vars == <<delivered, buffered, released,
                  lock_timed_out, admit_space, admit_dropped, cycle_appends,
                  requests, cycle>>
calc_vars == <<fn_args, fn_result>>
grain_vars == <<s_status_mutex, in_flight, st_call, ret_u>>
vars == <<store_vars, uploader_vars, task_vars, pc_p, history_vars, calc_vars,
          grain_vars>>

\* ------------------------------------------------------------ helpers
Min(a, b) == IF a < b THEN a ELSE b

\* The occupied part of the Log Store, oldest first.
Live(buf, cnt) == [i \in 1 .. cnt |-> buf[i - 1]]

Uptimes(s) == {s[i].uptime_us : i \in 1 .. Len(s)}

\* The non-null image pointers of a sequence of entries, in order.
RECURSIVE ImagePtrs(_)
ImagePtrs(s) ==
    IF s = <<>> THEN <<>>
    ELSE (IF Head(s).image_ptr # 0 THEN <<Head(s).image_ptr>> ELSE <<>>)
         \o ImagePtrs(Tail(s))

\* free() called once on each pointer of the sequence ptrs.
RECURSIVE ApplyFrees(_, _)
ApplyFrees(fc, ptrs) ==
    IF ptrs = <<>> THEN fc
    ELSE ApplyFrees([fc EXCEPT ![Head(ptrs)] = @ + 1], Tail(ptrs))

\* ------------------------------------------------------------ csv_logger.c
\* get_current_timestamp: the placeholder until time() passes 2024-01-01.
GetCurrentTimestamp(synced) == IF synced THEN WALLCLOCK ELSE PLACEHOLDER

\* csv_logger_log_face, lines 72-124: the entry built under the lock.
\* has_image: an image was passed and malloc succeeded.
NewEntry(synced, now_us, has_image) ==
    [timestamp |-> GetCurrentTimestamp(synced),
     image_ptr |-> IF has_image THEN now_us ELSE 0,
     uptime_us |-> now_us]

\* Mutant: the overflow test is missing, the entry goes to slot cnt.
LogFaceStore_NoEvict(buf, cnt, entry) ==
    [buf |-> [i \in Slots |-> IF i = cnt THEN entry ELSE buf[i]],
     cnt |-> cnt + 1,
     freed |-> <<>>]

\* Mutant: on overflow the newest entry is overwritten instead of the oldest
\* being shifted out.
LogFaceStore_EvictNewest(buf, cnt, entry) ==
    LET full == cnt >= MAX_LOG_ENTRIES
        last == MAX_LOG_ENTRIES - 1
        freed == IF full /\ buf[last].image_ptr # 0 THEN <<buf[last].image_ptr>> ELSE <<>>
        c1 == IF full THEN MAX_LOG_ENTRIES - 1 ELSE cnt
    IN  [buf |-> [buf EXCEPT ![c1] = entry],
         cnt |-> c1 + 1,
         freed |-> freed]

\* Mutant: the evicted entry's image buffer is not freed.
LogFaceStore_NoFree(buf, cnt, entry) ==
    LET full == cnt >= MAX_LOG_ENTRIES
        shifted == IF full
                   THEN [i \in Slots |-> IF i < MAX_LOG_ENTRIES - 1 THEN buf[i + 1] ELSE buf[i]]
                   ELSE buf
        c1 == IF full THEN MAX_LOG_ENTRIES - 1 ELSE cnt
    IN  [buf |-> [shifted EXCEPT ![c1] = entry],
         cnt |-> c1 + 1,
         freed |-> <<>>]

\* csv_logger_log_face, lines 126-140: store the entry, evicting index 0
\* when the buffer is full.
LogFaceStore(buf, cnt, entry) ==
    LET full == cnt >= MAX_LOG_ENTRIES
        freed == IF full /\ buf[0].image_ptr # 0 THEN <<buf[0].image_ptr>> ELSE <<>>
        shifted == IF full
                   THEN [i \in Slots |-> IF i < MAX_LOG_ENTRIES - 1 THEN buf[i + 1] ELSE buf[i]]
                   ELSE buf
        c1 == IF full THEN MAX_LOG_ENTRIES - 1 ELSE cnt
    IN  [buf |-> [shifted EXCEPT ![c1] = entry],
         cnt |-> c1 + 1,
         freed |-> freed]

\* Mutant: the copy starts at the newest end of the buffer.
ReadPendingLogs_Newest(buf, cnt, max_count) ==
    LET count == IF cnt < max_count THEN cnt ELSE max_count
    IN  [buf |-> buf,
         cnt |-> cnt,
         logs |-> [i \in 1 .. count |-> buf[cnt - count + i - 1]],
         actual_count |-> count]

\* Mutant: the entries copied out are also dropped from the store.
ReadPendingLogs_Drain(buf, cnt, max_count) ==
    LET count == IF cnt < max_count THEN cnt ELSE max_count
    IN  [buf |-> [i \in Slots |-> IF i < cnt - count THEN buf[i + count] ELSE buf[i]],
         cnt |-> cnt - count,
         logs |-> [i \in 1 .. count |-> buf[i - 1]],
         actual_count |-> count]

\* csv_logger_read_pending_logs, lines 167-172: copy the oldest entries out;
\* the store itself is returned as the function leaves it.
ReadPendingLogs(buf, cnt, max_count) ==
    LET count == IF cnt < max_count THEN cnt ELSE max_count
    IN  [buf |-> buf,
         cnt |-> cnt,
         logs |-> [i \in 1 .. count |-> buf[i - 1]],
         actual_count |-> count]

\* Mutant: the partial branch lowers the count without compacting.
MarkUploaded_NoShift(buf, cnt, count) ==
    IF count >= cnt
    THEN [buf |-> [i \in Slots |->
                      IF i < cnt THEN [buf[i] EXCEPT !.image_ptr = 0] ELSE buf[i]],
          cnt |-> 0,
          freed |-> ImagePtrs(Live(buf, cnt)),
          released |-> Uptimes(Live(buf, cnt))]
    ELSE [buf |-> [i \in Slots |->
                      IF i < count THEN [buf[i] EXCEPT !.image_ptr = 0] ELSE buf[i]],
          cnt |-> cnt - count,
          freed |-> ImagePtrs(Live(buf, count)),
          released |-> Uptimes(Live(buf, count))]

\* Mutant: the clear-all branch resets the count without freeing the images.
MarkUploaded_Leak(buf, cnt, count) ==
    IF count >= cnt
    THEN [buf |-> buf, cnt |-> 0, freed |-> <<>>,
          released |-> Uptimes(Live(buf, cnt))]
    ELSE LET zeroed == [i \in Slots |->
                           IF i < count THEN [buf[i] EXCEPT !.image_ptr = 0] ELSE buf[i]]
         IN  [buf |-> [i \in Slots |->
                          IF i < cnt - count THEN zeroed[i + count] ELSE zeroed[i]],
              cnt |-> cnt - count,
              freed |-> ImagePtrs(Live(buf, count)),
              released |-> Uptimes(Live(buf, count))]

\* csv_logger_mark_uploaded, lines 183-205.
MarkUploaded(buf, cnt, count) ==
    IF count >= cnt
    THEN [buf |-> [i \in Slots |->
                      IF i < cnt THEN [buf[i] EXCEPT !.image_ptr = 0] ELSE buf[i]],
          cnt |-> 0,
          freed |-> ImagePtrs(Live(buf, cnt)),
          released |-> Uptimes(Live(buf, cnt))]
    ELSE LET zeroed == [i \in Slots |->
                           IF i < count THEN [buf[i] EXCEPT !.image_ptr = 0] ELSE buf[i]]
         IN  [buf |-> [i \in Slots |->
                          IF i < cnt - count THEN zeroed[i + count] ELSE zeroed[i]],
              cnt |-> cnt - count,
              freed |-> ImagePtrs(Live(buf, count)),
              released |-> Uptimes(Live(buf, count))]

\* ---------------------------------------------------------- csv_uploader.c
\* The transport errors reported through update_status_error; one message
\* stands for "WiFi not connected", "No IP address", "Connection failed: .."
\* and "Server error: HTTP ..".
MSG_TRANSPORT == "Server error: HTTP"
MSG_EXHAUSTED == "Upload failed after retries"

\* update_status_error, lines 45-54
UpdateStatusError(st, error_msg) ==
    [st EXCEPT !.is_online = FALSE,
               !.failed_uploads = @ + 1,
               !.consecutive_failures = @ + 1,
               !.last_error = error_msg]

\* A variant that counts requests, not records.
UpdateStatusSuccess_One(st, uploaded_count) ==
    [st EXCEPT !.is_online = TRUE,
               !.successful_uploads = @ + 1,
               !.consecutive_failures = 0,
               !.last_error = ""]

\* A variant that leaves the failure streak as it is.
UpdateStatusSuccess_KeepStreak(st, uploaded_count) ==
    [st EXCEPT !.is_online = TRUE,
               !.successful_uploads = @ + uploaded_count,
               !.last_error = ""]

\* update_status_success, lines 57-66 (last_successful_upload_time is a
\* clock reading nothing else reads; it is left out)
UpdateStatusSuccess(st, uploaded_count) ==
    [st EXCEPT !.is_online = TRUE,
               !.successful_uploads = @ + uploaded_count,
               !.consecutive_failures = 0,
               !.last_error = ""]

\* Variants of add_to_offline_buffer the claims are tested against.
\* The cap by the free space (lines 77-80) is left out.
AddToOfflineBuffer_NoCap(ob, ob_count, size, lg, count) ==
    [buf |-> IF count > 0
             THEN SubSeq(ob, 1, ob_count) \o SubSeq(lg, 1, count)
             ELSE ob,
     count |-> IF count > 0 THEN ob_count + count ELSE ob_count,
     to_add |-> count,
     space |-> size - ob_count]

\* Only the first record of the batch is copied.
AddToOfflineBuffer_FirstOnly(ob, ob_count, size, lg, count) ==
    LET space_available == size - ob_count
        to_add == IF space_available > 0 /\ count > 0 THEN 1 ELSE 0
    IN  [buf |-> IF to_add > 0
                 THEN SubSeq(ob, 1, ob_count) \o SubSeq(lg, 1, to_add)
                 ELSE ob,
         count |-> IF to_add > 0 THEN ob_count + to_add ELSE ob_count,
         to_add |-> to_add,
         space |-> space_available]

\* add_to_offline_buffer, lines 75-92: the body under the status lock.
\* A variant that admits the last records of the batch instead of the first.
AddToOfflineBuffer_Tail(ob, ob_count, size, lg, count) ==
    LET space_available == size - ob_count
        to_add == IF count > space_available THEN space_available ELSE count
    IN  [buf |-> IF to_add > 0
                 THEN SubSeq(ob, 1, ob_count) \o SubSeq(lg, count - to_add + 1, count)
                 ELSE ob,
         count |-> IF to_add > 0 THEN ob_count + to_add ELSE ob_count,
         to_add |-> to_add,
         space |-> space_available]

AddToOfflineBuffer(ob, ob_count, size, lg, count) ==
    LET space_available == size - ob_count
        to_add == IF count > space_available THEN space_available ELSE count
    IN  [buf |-> IF to_add > 0
                 THEN SubSeq(ob, 1, ob_count) \o SubSeq(lg, 1, to_add)
                 ELSE ob,
         count |-> IF to_add > 0 THEN ob_count + to_add ELSE ob_count,
         to_add |-> to_add,
         space |-> space_available]

\* upload_logs_to_server, lines 137-157: the time repair, done in place on
\* the array the caller passed.
RepairTimestamps(lg, count, synced) ==
    [i \in 1 .. Len(lg) |->
        IF i <= count /\ synced /\ lg[i].timestamp = PLACEHOLDER
        THEN [lg[i] EXCEPT !.timestamp = REPAIRED]
        ELSE lg[i]]

\* What one call of upload_logs_to_server can end in: HTTP 200; a failure
\* reported through update_status_error (no WiFi, no IP, connect error,
\* status other than 200); a failure that returns without touching the
\* status (cJSON_Print, esp_http_client_init or esp_http_client_write fails).
Outcomes == {"ok", "status_err", "silent_err"}

\* The configurations explored: one retry with a small Offline Buffer
\* (admissions that overflow, flushes), MaxRetries retries with a large one
\* (backoff, admissions that fit), and buffering disabled (the Offline Buffer
\* is then not allocated, lines 455-462, and its size is not looked at).
Configs ==
    {[max_retries |-> 1, max_batch_size |-> BatchCap,
      enable_offline_buffering |-> TRUE,
      offline_buffer_size |-> MinOfflineSize],
     [max_retries |-> MaxRetries, max_batch_size |-> BatchCap,
      enable_offline_buffering |-> TRUE,
      offline_buffer_size |-> MaxOfflineSize],
     [max_retries |-> MaxRetries, max_batch_size |-> BatchCap,
      enable_offline_buffering |-> FALSE,
      offline_buffer_size |-> MinOfflineSize]}

\* ------------------------------------------------------------------- Init
\* memset(&s_status, 0, sizeof(s_status)) of csv_uploader_init, line 433
InitialStatus ==
    [is_online |-> FALSE, failed_uploads |-> 0, successful_uploads |-> 0,
     consecutive_failures |-> 0, last_error |-> "", offline_buffer_count |-> 0]

\* No update_status_* call is pending.
NoCall == [kind |-> "none", arg |-> 0]

\* No delivery cycle has taken a snapshot yet.
NoCycle == [status0 |-> InitialStatus, ob0 |-> <<>>, events |-> <<>>]

\* The state after csv_logger_init and csv_uploader_init.
ProgramInit ==
    /\ s_log_buffer = [i \in Slots |-> ZeroEntry]
    /\ s_log_count = 0
    /\ s_csv_mutex = "none"
    /\ allocated = {}
    /\ free_calls = [p \in Ptrs |-> 0]
    /\ uptime = 0
    /\ time_synced = FALSE
    /\ s_config \in Configs
    /\ s_running = FALSE
    /\ task_count = 0
    /\ s_trigger_sem = 0
    /\ s_status = InitialStatus
    /\ s_offline_buffer = <<>>
    /\ s_offline_buffer_count = 0
    /\ pc_u = "none"
    /\ logs = <<>>
    /\ actual_count = 0
    /\ retry_count = 0
    /\ upload_success = FALSE
    /\ mark_err = "none"
    /\ pc_p = "idle"
    /\ delivered = {}
    /\ buffered = {}
    /\ released = {}
    /\ lock_timed_out = FALSE
    /\ admit_space = 0
    /\ admit_dropped = FALSE
    /\ cycle_appends = FALSE
    /\ requests = 0
    /\ cycle = NoCycle
    /\ s_status_mutex = "none"
    /\ in_flight = 0
    /\ st_call = NoCall
    /\ ret_u = "none"

\* The program: no function is called on its own.
Init ==
    /\ ProgramInit
    /\ fn_args = <<>>
    /\ fn_result = <<>>

\* --------------------------------------------- producer: csv_logger_log_face
\* app_main registers the face recognition task (device_config.h line 593)
\* after csv_uploader_start (line 547) has created the delivery task.
ProducerRegistered == task_count > 0

\* line 68: xSemaphoreTake(s_csv_mutex) succeeds
P_Take ==
    /\ pc_p = "idle"
    /\ ProducerRegistered
    /\ uptime < MaxEvents
    /\ s_csv_mutex = "none"
    /\ s_csv_mutex' = "producer"
    /\ pc_p' = "cs"
    /\ UNCHANGED <<calc_vars, grain_vars, s_log_buffer, s_log_count, allocated, free_calls, uptime,
                   time_synced, uploader_vars, task_vars, history_vars>>

\* A variant of the timed-out append that stores the entry all the same.
P_Timeout_Append ==
    /\ pc_p = "idle"
    /\ ProducerRegistered
    /\ uptime < MaxEvents
    /\ s_csv_mutex # "none"
    /\ lock_timed_out' = TRUE
    /\ LET now_us == uptime + 1
           r == LogFaceStore(s_log_buffer, s_log_count,
                             NewEntry(time_synced, now_us, FALSE))
       IN  /\ uptime' = now_us
           /\ s_log_buffer' = r.buf
           /\ s_log_count' = r.cnt
    /\ UNCHANGED <<cycle, calc_vars, grain_vars, s_csv_mutex, allocated, free_calls,
                   time_synced, uploader_vars, task_vars, pc_p, delivered, buffered,
                   released, admit_space, admit_dropped, cycle_appends, requests>>

\* lines 68-70: the lock is held for the whole wait; ESP_ERR_TIMEOUT, the
\* event is dropped
P_Timeout ==
    /\ pc_p = "idle"
    /\ ProducerRegistered
    /\ uptime < MaxEvents
    /\ s_csv_mutex # "none"
    /\ lock_timed_out' = TRUE
    /\ UNCHANGED <<cycle, calc_vars, grain_vars, store_vars, uploader_vars, task_vars, pc_p, delivered, buffered, released, admit_space,
                   admit_dropped, cycle_appends, requests>>

\* lines 72-146: build the entry, store it, give the lock
P_Body(has_image) ==
    /\ pc_p = "cs"
    /\ LET now_us == uptime + 1
           entry == NewEntry(time_synced, now_us, has_image)
           r == LogFaceStore(s_log_buffer, s_log_count, entry)
       IN  /\ uptime' = now_us
           /\ allocated' = IF has_image THEN allocated \cup {now_us} ELSE allocated
           /\ s_log_buffer' = r.buf
           /\ s_log_count' = r.cnt
           /\ free_calls' = ApplyFrees(free_calls, r.freed)
    /\ s_csv_mutex' = "none"
    /\ pc_p' = "trigger"
    /\ cycle_appends' = TRUE
    /\ UNCHANGED <<cycle, calc_vars, grain_vars, time_synced, uploader_vars, task_vars, delivered,
                   buffered, released, lock_timed_out, admit_space, admit_dropped,
                   requests>>

\* A variant of the trigger on a counting semaphore.
P_Trigger_Counting ==
    /\ pc_p = "trigger"
    /\ s_trigger_sem' = IF s_running THEN s_trigger_sem + 1 ELSE s_trigger_sem
    /\ pc_p' = "idle"
    /\ UNCHANGED <<calc_vars, grain_vars, store_vars, s_config, s_running, task_count,
                   s_status, s_offline_buffer, s_offline_buffer_count,
                   task_vars, history_vars>>

\* csv_uploader_trigger_now, lines 498-508, called at line 149
P_Trigger ==
    /\ pc_p = "trigger"
    /\ s_trigger_sem' = IF s_running THEN 1 ELSE s_trigger_sem
    /\ pc_p' = "idle"
    /\ UNCHANGED <<calc_vars, grain_vars, store_vars, s_config, s_running, task_count, s_status,
                   s_offline_buffer, s_offline_buffer_count,
                   task_vars, history_vars>>

\* ------------------------------- the Log Store API called by a direct caller
\* Each call runs from xSemaphoreTake to xSemaphoreGive without another task
\* in between.  The caller's output buffer of an earlier read is gone when
\* it makes its next call.

\* csv_logger_log_face, lines 64-152
ApiLogFace(has_image) ==
    /\ pc_u = "none"
    /\ pc_p = "idle"
    /\ uptime < MaxEvents
    /\ s_csv_mutex = "none"
    /\ LET now_us == uptime + 1
           entry == NewEntry(time_synced, now_us, has_image)
           r == LogFaceStore(s_log_buffer, s_log_count, entry)
       IN  /\ uptime' = now_us
           /\ allocated' = IF has_image THEN allocated \cup {now_us} ELSE allocated
           /\ s_log_buffer' = r.buf
           /\ s_log_count' = r.cnt
           /\ free_calls' = ApplyFrees(free_calls, r.freed)
    /\ s_trigger_sem' = IF s_running THEN 1 ELSE s_trigger_sem
    /\ cycle_appends' = TRUE
    /\ logs' = <<>>
    /\ actual_count' = 0
    /\ UNCHANGED <<cycle, calc_vars, grain_vars, s_csv_mutex, time_synced, s_config, s_running, task_count,
                   s_status, s_offline_buffer, s_offline_buffer_count, pc_u, retry_count,
                   upload_success, mark_err, pc_p, delivered, buffered,
                   released, lock_timed_out, admit_space, admit_dropped, requests>>

\* csv_logger_read_pending_logs(logs, max_count, &actual_count), lines 159-175
ApiRead(max_count) ==
    /\ pc_u = "none"
    /\ pc_p = "idle"
    /\ s_csv_mutex = "none"
    /\ LET r == ReadPendingLogs(s_log_buffer, s_log_count, max_count)
       IN  /\ s_log_buffer' = r.buf
           /\ s_log_count' = r.cnt
           /\ logs' = r.logs
           /\ actual_count' = r.actual_count
    /\ UNCHANGED <<calc_vars, grain_vars, s_csv_mutex, allocated, free_calls, uptime, time_synced,
                   uploader_vars, pc_u, retry_count, upload_success,
                   mark_err, pc_p, history_vars>>

\* csv_logger_mark_uploaded(count), lines 177-211
ApiMark(count) ==
    /\ pc_u = "none"
    /\ pc_p = "idle"
    /\ s_csv_mutex = "none"
    /\ LET r == MarkUploaded(s_log_buffer, s_log_count, count)
       IN  /\ s_log_buffer' = r.buf
           /\ s_log_count' = r.cnt
           /\ free_calls' = ApplyFrees(free_calls, r.freed)
    /\ logs' = <<>>
    /\ actual_count' = 0
    /\ UNCHANGED <<calc_vars, grain_vars, s_csv_mutex, allocated, uptime, time_synced, uploader_vars,
                   pc_u, retry_count, upload_success, mark_err,
                   pc_p, history_vars>>

\* The Log Store driven through its API alone, before the uploader starts.
NextStore ==
    \/ \E has_image \in BOOLEAN : ApiLogFace(has_image)
    \/ \E k \in 0 .. MaxArg : ApiRead(k)
    \/ \E n \in 0 .. MaxArg : ApiMark(n)

\* The uploader is initialised with one configuration and never started.
InitStore ==
    /\ Init
    /\ s_config = [max_retries |-> 1, max_batch_size |-> BatchCap,
                   enable_offline_buffering |-> TRUE,
                   offline_buffer_size |-> MinOfflineSize]

SpecStore == InitStore /\ [][NextStore]_vars

\* A variant of csv_uploader_start without the test of s_running.
StartCreate_Unguarded ==
    /\ task_count < 2
    /\ s_running' = TRUE
    /\ task_count' = task_count + 1
    /\ pc_u' = "wait"
    /\ UNCHANGED <<calc_vars, grain_vars, store_vars, s_config, s_trigger_sem, s_status, s_offline_buffer,
                   s_offline_buffer_count, logs,
                   actual_count, retry_count, upload_success, mark_err, pc_p,
                   history_vars>>

\* ------------------------------------------------------ csv_uploader_start
\* lines 478-496: xTaskCreate succeeds, the task starts at the top of its
\* loop
StartCreate ==
    /\ ~s_running
    /\ s_running' = TRUE
    /\ task_count' = task_count + 1
    /\ pc_u' = "wait"
    /\ UNCHANGED <<calc_vars, grain_vars, store_vars, s_config, s_trigger_sem, s_status, s_offline_buffer,
                   s_offline_buffer_count, logs,
                   actual_count, retry_count, upload_success, mark_err, pc_p,
                   history_vars>>

\* lines 480-483: already running, nothing is created
StartAgain ==
    /\ s_running
    /\ UNCHANGED vars

\* --------------------------------------------------- upload_task, one cycle
\* The Status Register and the Offline Buffer are touched by the delivery
\* task alone (s_status_mutex has no other user, so its takes never wait).
\* The steps of the task between two accesses to the Log Store or to the
\* trigger semaphore are therefore taken as one step.

\* The cycle's record with one more event: a request and its answer
\* (kind "flush" or "primary", the batch as transmitted) or the run of the
\* exhaustion path (kind "exhausted").
Logged(cy, kind, ok, batch) ==
    [cy EXCEPT !.events = Append(@, [kind |-> kind, ok |-> ok, batch |-> batch])]

\* upload_logs_to_server(lg, count), lines 119-334, ending in outcome: the
\* time repair on the caller's array, the request, the status update.
UploadLogsToServer(st, lg, count, synced, outcome) ==
    [logs |-> RepairTimestamps(lg, count, synced),
     status |-> CASE outcome = "ok" -> UpdateStatusSuccess(st, count)
                  [] outcome = "status_err" -> UpdateStatusError(st, MSG_TRANSPORT)
                  [] outcome = "silent_err" -> st,
     ok |-> (outcome = "ok")]

\* line 345: the trigger semaphore is available
U_WaitTriggered ==
    /\ pc_u = "wait"
    /\ s_trigger_sem = 1
    /\ s_trigger_sem' = 0
    /\ pc_u' = "check"
    /\ UNCHANGED <<calc_vars, grain_vars, store_vars, s_config, s_running, task_count, s_status,
                   s_offline_buffer, s_offline_buffer_count, logs, actual_count,
                   retry_count, upload_success, mark_err, pc_p, history_vars>>

\* lines 345-349: upload_interval_seconds pass without a trigger
U_WaitTimeout ==
    /\ pc_u = "wait"
    /\ s_trigger_sem = 0
    /\ pc_u' = "check"
    /\ UNCHANGED <<calc_vars, grain_vars, store_vars, uploader_vars, logs, actual_count, retry_count,
                   upload_success, mark_err, pc_p, history_vars>>

\* lines 354-358: csv_logger_get_pending_count, read without the lock
U_Check ==
    /\ pc_u = "check"
    /\ pc_u' = IF s_log_count = 0 THEN "wait" ELSE "read"
    /\ UNCHANGED <<calc_vars, grain_vars, store_vars, uploader_vars, logs, actual_count, retry_count,
                   upload_success, mark_err, pc_p, history_vars>>

\* csv_logger_read_pending_logs, line 163: the lock is taken
U_ReadTake ==
    /\ pc_u = "read"
    /\ s_csv_mutex = "none"
    /\ s_csv_mutex' = "uploader"
    /\ pc_u' = "read_cs"
    /\ UNCHANGED <<calc_vars, grain_vars, s_log_buffer, s_log_count, allocated, free_calls, uptime,
                   time_synced, uploader_vars, logs, actual_count, retry_count,
                   upload_success, mark_err, pc_p, history_vars>>

\* lines 163-165 and 364-367: ESP_ERR_TIMEOUT, the cycle is abandoned
U_ReadTimeout ==
    /\ pc_u = "read"
    /\ s_csv_mutex # "none"
    /\ lock_timed_out' = TRUE
    /\ pc_u' = "wait"
    /\ UNCHANGED <<cycle, calc_vars, grain_vars, store_vars, uploader_vars, logs, actual_count, retry_count,
                   upload_success, mark_err, pc_p, delivered, buffered, released,
                   admit_space, admit_dropped, cycle_appends, requests>>

\* A variant of the snapshot that returns with the Log Store lock held.
U_ReadBody_KeepLock ==
    /\ pc_u = "read_cs"
    /\ LET r == ReadPendingLogs(s_log_buffer, s_log_count, LOGS_LEN)
       IN  /\ s_log_buffer' = r.buf
           /\ s_log_count' = r.cnt
           /\ logs' = r.logs
           /\ actual_count' = r.actual_count
           /\ pc_u' = IF r.actual_count = 0 THEN "wait" ELSE "flush"
    /\ s_csv_mutex' = s_csv_mutex
    /\ cycle_appends' = FALSE
    /\ cycle' = [status0 |-> s_status, ob0 |-> s_offline_buffer, events |-> <<>>]
    /\ UNCHANGED <<calc_vars, grain_vars, allocated, free_calls, uptime, time_synced, uploader_vars,
                   retry_count, upload_success, mark_err, pc_p, delivered,
                   buffered, released, lock_timed_out, admit_space, admit_dropped,
                   requests>>

\* lines 167-173 and 369-372: the snapshot into logs[5]
U_ReadBody ==
    /\ pc_u = "read_cs"
    /\ LET r == ReadPendingLogs(s_log_buffer, s_log_count, LOGS_LEN)
       IN  /\ s_log_buffer' = r.buf
           /\ s_log_count' = r.cnt
           /\ logs' = r.logs
           /\ actual_count' = r.actual_count
           /\ pc_u' = IF r.actual_count = 0 THEN "wait" ELSE "flush"
    /\ s_csv_mutex' = "none"
    /\ cycle_appends' = FALSE
    /\ cycle' = [status0 |-> s_status, ob0 |-> s_offline_buffer, events |-> <<>>]
    /\ UNCHANGED <<calc_vars, grain_vars, allocated, free_calls, uptime, time_synced, uploader_vars,
                   retry_count, upload_success, mark_err, pc_p, delivered,
                   buffered, released, lock_timed_out, admit_space, admit_dropped,
                   requests>>

\* upload_offline_buffer, lines 100-102: nothing to flush; then lines 378-379
U_FlushSkip ==
    /\ pc_u = "flush"
    /\ ~s_config.enable_offline_buffering \/ s_offline_buffer_count = 0
    /\ retry_count' = 0
    /\ upload_success' = FALSE
    /\ pc_u' = "loop"
    /\ UNCHANGED <<calc_vars, grain_vars, store_vars, uploader_vars, logs, actual_count, mark_err, pc_p,
                   history_vars>>

\* A variant of the flush whose failure ends the cycle.
U_Flush_Abort(outcome) ==
    /\ pc_u = "flush"
    /\ s_config.enable_offline_buffering
    /\ s_offline_buffer_count # 0
    /\ requests < MaxRequests
    /\ LET r == UploadLogsToServer(s_status, s_offline_buffer,
                                   s_offline_buffer_count, time_synced, outcome)
       IN  IF r.ok
           THEN /\ delivered' = delivered \cup Uptimes(r.logs)
                /\ s_offline_buffer' = <<>>
                /\ s_offline_buffer_count' = 0
                /\ s_status' = [r.status EXCEPT !.offline_buffer_count = 0]
           ELSE /\ s_offline_buffer' = r.logs
                /\ s_status' = r.status
                /\ UNCHANGED <<delivered, s_offline_buffer_count>>
    /\ cycle' = Logged(cycle, "flush", outcome = "ok",
                       RepairTimestamps(s_offline_buffer, s_offline_buffer_count,
                                        time_synced))
    /\ requests' = requests + 1
    /\ retry_count' = 0
    /\ upload_success' = FALSE
    /\ pc_u' = IF outcome = "ok" THEN "loop" ELSE "wait"
    /\ UNCHANGED <<calc_vars, grain_vars, store_vars, s_config, s_running, task_count, s_trigger_sem,
                   logs, actual_count, mark_err, pc_p, buffered, released,
                   lock_timed_out, admit_space, admit_dropped, cycle_appends>>

\* upload_offline_buffer, lines 104-116: one request for the whole Offline
\* Buffer, cleared when it is answered with HTTP 200; then lines 378-379
U_Flush(outcome) ==
    /\ pc_u = "flush"
    /\ s_config.enable_offline_buffering
    /\ s_offline_buffer_count # 0
    /\ requests < MaxRequests
    /\ LET r == UploadLogsToServer(s_status, s_offline_buffer,
                                   s_offline_buffer_count, time_synced, outcome)
       IN  IF r.ok
           THEN /\ delivered' = delivered \cup Uptimes(r.logs)
                /\ s_offline_buffer' = <<>>
                /\ s_offline_buffer_count' = 0
                /\ s_status' = [r.status EXCEPT !.offline_buffer_count = 0]
           ELSE /\ s_offline_buffer' = r.logs
                /\ s_status' = r.status
                /\ UNCHANGED <<delivered, s_offline_buffer_count>>
    /\ cycle' = Logged(cycle, "flush", outcome = "ok",
                       RepairTimestamps(s_offline_buffer, s_offline_buffer_count,
                                        time_synced))
    /\ requests' = requests + 1
    /\ retry_count' = 0
    /\ upload_success' = FALSE
    /\ pc_u' = "loop"
    /\ UNCHANGED <<calc_vars, grain_vars, store_vars, s_config, s_running, task_count, s_trigger_sem,
                   logs, actual_count, mark_err, pc_p, buffered, released,
                   lock_timed_out, admit_space, admit_dropped, cycle_appends>>

\* lines 381-384: an attempt answered with HTTP 200
U_SendOk ==
    /\ pc_u = "loop"
    /\ retry_count < s_config.max_retries /\ ~upload_success /\ s_running
    /\ requests < MaxRequests
    /\ LET r == UploadLogsToServer(s_status, logs, actual_count, time_synced, "ok")
       IN  /\ logs' = r.logs
           /\ s_status' = r.status
           /\ delivered' = delivered \cup Uptimes(SubSeq(r.logs, 1, actual_count))
           /\ cycle' = Logged(cycle, "primary", TRUE, SubSeq(r.logs, 1, actual_count))
    /\ upload_success' = TRUE
    /\ requests' = requests + 1
    /\ pc_u' = "mark"
    /\ UNCHANGED <<calc_vars, grain_vars, store_vars, s_config, s_running, task_count, s_trigger_sem,
                   s_offline_buffer, s_offline_buffer_count, actual_count,
                   retry_count, mark_err, pc_p, buffered, released, lock_timed_out,
                   admit_space, admit_dropped, cycle_appends>>

\* lines 381-400: an attempt that fails; back off, or give up and, when
\* buffering is enabled, admit the snapshot to the Offline Buffer
\* (add_to_offline_buffer, lines 69-96; s_offline_buffer is allocated
\* whenever buffering is enabled, lines 455-462).  With buffering disabled
\* lines 403-405 follow at once and the loop test at line 381 fails.
U_SendFail(outcome) ==
    /\ pc_u = "loop"
    /\ retry_count < s_config.max_retries /\ ~upload_success /\ s_running
    /\ requests < MaxRequests
    /\ outcome # "ok"
    /\ LET r == UploadLogsToServer(s_status, logs, actual_count, time_synced, outcome)
           a == AddToOfflineBuffer(s_offline_buffer, s_offline_buffer_count,
                                   s_config.offline_buffer_size, r.logs, actual_count)
           sent == Logged(cycle, "primary", FALSE, SubSeq(r.logs, 1, actual_count))
       IN  /\ logs' = r.logs
           /\ cycle' = IF retry_count + 1 < s_config.max_retries
                       THEN sent
                       ELSE Logged(sent, "exhausted", FALSE, <<>>)
           /\ IF retry_count + 1 < s_config.max_retries
              THEN /\ pc_u' = "backoff"
                   /\ s_status' = r.status
                   /\ UNCHANGED <<s_offline_buffer, s_offline_buffer_count, buffered,
                                  admit_space, admit_dropped>>
              ELSE IF s_config.enable_offline_buffering
              THEN /\ pc_u' = "mark"
                   /\ s_offline_buffer' = a.buf
                   /\ s_offline_buffer_count' = a.count
                   /\ s_status' = IF a.to_add > 0
                                  THEN [r.status EXCEPT !.offline_buffer_count = a.count]
                                  ELSE r.status
                   /\ buffered' = buffered \cup Uptimes(SubSeq(r.logs, 1, Min(a.to_add, Len(r.logs))))
                   /\ admit_space' = a.space
                   /\ admit_dropped' = (admit_dropped \/ a.to_add < actual_count)
              ELSE /\ pc_u' = "wait"
                   /\ s_status' = UpdateStatusError(r.status, MSG_EXHAUSTED)
                   /\ UNCHANGED <<s_offline_buffer, s_offline_buffer_count, buffered,
                                  admit_space, admit_dropped>>
    /\ retry_count' = retry_count + 1
    /\ requests' = requests + 1
    /\ UNCHANGED <<calc_vars, grain_vars, store_vars, s_config, s_running, task_count, s_trigger_sem,
                   actual_count, upload_success, mark_err, pc_p, delivered, released,
                   lock_timed_out, cycle_appends>>

\* A variant of the backoff that starts the count of attempts again.
U_Backoff_Reset ==
    /\ pc_u = "backoff"
    /\ pc_u' = "loop"
    /\ retry_count' = 0
    /\ UNCHANGED <<calc_vars, grain_vars, store_vars, uploader_vars, logs, actual_count,
                   upload_success, mark_err, pc_p, history_vars>>

\* line 393: vTaskDelay(calculate_backoff_delay(retry_count - 1)) is over;
\* the loop test at line 381 holds (retry_count < max_retries)
U_Backoff ==
    /\ pc_u = "backoff"
    /\ pc_u' = "loop"
    /\ UNCHANGED <<calc_vars, grain_vars, store_vars, uploader_vars, logs, actual_count, retry_count,
                   upload_success, mark_err, pc_p, history_vars>>

\* What follows csv_logger_mark_uploaded: after a success (line 386) the loop
\* test fails; after the retries are exhausted lines 403-405 report it and
\* the loop test fails.  The task is back at the wait of line 345.
AfterMark ==
    /\ s_status' = IF upload_success THEN s_status
                   ELSE UpdateStatusError(s_status, MSG_EXHAUSTED)
    /\ pc_u' = "wait"

\* csv_logger_mark_uploaded, line 179: the lock is taken
U_MarkTake ==
    /\ pc_u = "mark"
    /\ s_csv_mutex = "none"
    /\ s_csv_mutex' = "uploader"
    /\ pc_u' = "mark_cs"
    /\ UNCHANGED <<calc_vars, grain_vars, s_log_buffer, s_log_count, allocated, free_calls, uptime,
                   time_synced, uploader_vars, logs, actual_count, retry_count,
                   upload_success, mark_err, pc_p, history_vars>>

\* lines 179-181: ESP_ERR_TIMEOUT, which upload_task does not look at
U_MarkTimeout ==
    /\ pc_u = "mark"
    /\ s_csv_mutex # "none"
    /\ mark_err' = "timeout"
    /\ lock_timed_out' = TRUE
    /\ AfterMark
    /\ UNCHANGED <<cycle, calc_vars, grain_vars, store_vars, s_config, s_running, task_count, s_trigger_sem,
                   s_offline_buffer, s_offline_buffer_count, logs, actual_count,
                   retry_count, upload_success, pc_p, delivered, buffered, released,
                   admit_space, admit_dropped, cycle_appends, requests>>

\* lines 183-210
U_MarkBody ==
    /\ pc_u = "mark_cs"
    /\ LET r == MarkUploaded(s_log_buffer, s_log_count, actual_count)
       IN  /\ s_log_buffer' = r.buf
           /\ s_log_count' = r.cnt
           /\ free_calls' = ApplyFrees(free_calls, r.freed)
           /\ released' = released \cup r.released
    /\ s_csv_mutex' = "none"
    /\ mark_err' = "ok"
    /\ AfterMark
    /\ UNCHANGED <<cycle, calc_vars, grain_vars, allocated, uptime, time_synced, s_config, s_running, task_count,
                   s_trigger_sem, s_offline_buffer, s_offline_buffer_count, logs,
                   actual_count, retry_count, upload_success, pc_p, delivered,
                   buffered, lock_timed_out, admit_space, admit_dropped,
                   cycle_appends, requests>>

\* ------------------------------------------------------------ the program
\* The producer task and the delivery task, after both modules are
\* initialised.  The face recognition task passes no image
\* (who_human_face_recognition.cpp lines 342 and 431: image_buf NULL).
Next ==
    \/ StartCreate
    \/ StartAgain
    \/ P_Take
    \/ P_Timeout
    \/ P_Body(FALSE)
    \/ P_Trigger
    \/ U_WaitTriggered
    \/ U_WaitTimeout
    \/ U_Check
    \/ U_ReadTake
    \/ U_ReadTimeout
    \/ U_ReadBody
    \/ U_FlushSkip
    \/ \E outcome \in Outcomes : U_Flush(outcome)
    \/ U_SendOk
    \/ \E outcome \in Outcomes : U_SendFail(outcome)
    \/ U_Backoff
    \/ U_MarkTake
    \/ U_MarkTimeout
    \/ U_MarkBody

Spec == Init /\ [][Next]_vars

\* ----------------------------------------- the program with stored images
\* The same two tasks with a producer that passes an image to every
\* csv_logger_log_face call (image_buf non-NULL, image_len > 0, the malloc
\* of line 110 succeeds), under the configuration with one attempt per
\* cycle and the small Offline Buffer.
InitImages ==
    /\ Init
    /\ s_config = [max_retries |-> 1, max_batch_size |-> BatchCap,
                   enable_offline_buffering |-> TRUE,
                   offline_buffer_size |-> MinOfflineSize]

NextImages ==
    \/ StartCreate
    \/ P_Take
    \/ P_Timeout
    \/ P_Body(TRUE)
    \/ P_Trigger
    \/ U_WaitTriggered
    \/ U_WaitTimeout
    \/ U_Check
    \/ U_ReadTake
    \/ U_ReadTimeout
    \/ U_ReadBody
    \/ U_FlushSkip
    \/ \E outcome \in Outcomes : U_Flush(outcome)
    \/ U_SendOk
    \/ \E outcome \in Outcomes : U_SendFail(outcome)
    \/ U_MarkTake
    \/ U_MarkTimeout
    \/ U_MarkBody

SpecImages == InitImages /\ [][NextImages]_vars

\* ------------------------------------ the program after connectivity returns
\* The two tasks under the configuration with one attempt per cycle.  The
\* collector is unreachable for the first request at most: every request
\* after the first is answered with HTTP 200.  The delivery task is never
\* stopped (there is no stop function) and FreeRTOS schedules it whenever it
\* is ready: its waits are timed (lines 345, 163, 179) and its delays end.
\* A csv_logger_log_face call that holds the lock runs to its end.  Nothing
\* makes the producer call csv_logger_log_face again.
InitDrain ==
    /\ Init
    /\ s_config = [max_retries |-> 1, max_batch_size |-> BatchCap,
                   enable_offline_buffering |-> TRUE,
                   offline_buffer_size |-> MinOfflineSize]

\* lines 381-400 for the request sent while the collector is unreachable
U_SendFail_First(outcome) ==
    /\ requests = 0
    /\ U_SendFail(outcome)

\* The steps of upload_task.
UploaderStep ==
    \/ U_WaitTriggered
    \/ U_WaitTimeout
    \/ U_Check
    \/ U_ReadTake
    \/ U_ReadTimeout
    \/ U_ReadBody
    \/ U_FlushSkip
    \/ U_Flush("ok")
    \/ U_SendOk
    \/ \E outcome \in Outcomes : U_SendFail_First(outcome)
    \/ U_MarkTake
    \/ U_MarkTimeout
    \/ U_MarkBody

NextDrain ==
    \/ StartCreate
    \/ P_Take
    \/ P_Timeout
    \/ P_Body(FALSE)
    \/ P_Trigger
    \/ UploaderStep

SpecDrain ==
    /\ InitDrain
    /\ [][NextDrain]_vars
    /\ WF_vars(StartCreate)
    /\ WF_vars(UploaderStep)
    /\ WF_vars(P_Body(FALSE))
    /\ WF_vars(P_Trigger)

\* ------------- upload_task at the grain of its lock operations and requests
\* Every xSemaphoreTake and xSemaphoreGive of s_status_mutex and the start
\* and the answer of every transport request are steps of their own.  The
\* producer and the Log Store calls of the task are the steps of Spec.  Of
\* the histories only the count of requests is kept.

\* xTaskCreate fails (lines 487-491): s_running is set and reset, no task
StartFail ==
    /\ ~s_running
    /\ UNCHANGED vars

\* A pending update_status_* call and the place to continue at afterwards.
StatusCall(kind, arg, ret) ==
    /\ pc_u' = "status"
    /\ st_call' = [kind |-> kind, arg |-> arg]
    /\ ret_u' = ret

\* upload_offline_buffer, line 106, and upload_logs_to_server, lines 119-278:
\* the request for the whole Offline Buffer is built (the time repair is
\* done on s_offline_buffer itself) and sent
T_FlushBegin ==
    /\ pc_u = "flush"
    /\ s_config.enable_offline_buffering
    /\ s_offline_buffer_count # 0
    /\ requests < MaxRequests
    /\ s_offline_buffer' =
           RepairTimestamps(s_offline_buffer, s_offline_buffer_count, time_synced)
    /\ in_flight' = in_flight + 1
    /\ requests' = requests + 1
    /\ pc_u' = "flush_http"
    /\ UNCHANGED <<calc_vars, store_vars, s_config, s_running, task_count,
                   s_trigger_sem, s_status, s_offline_buffer_count, s_status_mutex,
                   st_call, ret_u, logs, actual_count, retry_count, upload_success,
                   mark_err, pc_p, delivered, buffered, released, lock_timed_out,
                   admit_space, admit_dropped, cycle_appends, cycle>>

\* upload_logs_to_server, lines 279-333, for the flush: the answer; lines
\* 378-379 follow a failed flush
T_FlushResult(outcome) ==
    /\ pc_u = "flush_http"
    /\ in_flight' = in_flight - 1
    /\ retry_count' = 0
    /\ upload_success' = FALSE
    /\ CASE outcome = "ok" ->
              StatusCall("success", s_offline_buffer_count, "flush_clear")
         [] outcome = "status_err" ->
              StatusCall("error", MSG_TRANSPORT, "loop")
         [] outcome = "silent_err" ->
              /\ pc_u' = "loop"
              /\ UNCHANGED <<st_call, ret_u>>
    /\ UNCHANGED <<calc_vars, store_vars, uploader_vars, s_status_mutex, logs,
                   actual_count, mark_err, pc_p, history_vars>>

\* update_status_error / update_status_success, lines 46 and 58: the status
\* lock is taken
T_StatusTake ==
    /\ pc_u = "status"
    /\ s_status_mutex = "none"
    /\ s_status_mutex' = "uploader"
    /\ pc_u' = "status_cs"
    /\ UNCHANGED <<calc_vars, store_vars, uploader_vars, in_flight, st_call, ret_u,
                   logs, actual_count, retry_count, upload_success, mark_err, pc_p,
                   history_vars>>

\* lines 47-52 and 59-64
T_StatusBody ==
    /\ pc_u = "status_cs"
    /\ s_status' = IF st_call.kind = "error"
                   THEN UpdateStatusError(s_status, st_call.arg)
                   ELSE UpdateStatusSuccess(s_status, st_call.arg)
    /\ s_status_mutex' = "none"
    /\ st_call' = NoCall
    /\ pc_u' = ret_u
    /\ ret_u' = "none"
    /\ UNCHANGED <<calc_vars, store_vars, s_config, s_running, task_count,
                   s_trigger_sem, s_offline_buffer, s_offline_buffer_count,
                   in_flight, logs, actual_count, retry_count, upload_success,
                   mark_err, pc_p, history_vars>>

\* upload_offline_buffer, line 108
T_FlushClearTake ==
    /\ pc_u = "flush_clear"
    /\ s_status_mutex = "none"
    /\ s_status_mutex' = "uploader"
    /\ pc_u' = "flush_clear_cs"
    /\ UNCHANGED <<calc_vars, store_vars, uploader_vars, in_flight, st_call, ret_u,
                   logs, actual_count, retry_count, upload_success, mark_err, pc_p,
                   history_vars>>

\* A variant of the clearing that leaves the Status Register as it is.
T_FlushClearBody_NoMirror ==
    /\ pc_u = "flush_clear_cs"
    /\ s_offline_buffer_count' = 0
    /\ s_offline_buffer' = <<>>
    /\ s_status' = s_status
    /\ s_status_mutex' = "none"
    /\ pc_u' = "loop"
    /\ UNCHANGED <<calc_vars, store_vars, s_config, s_running, task_count,
                   s_trigger_sem, in_flight, st_call, ret_u, logs, actual_count,
                   retry_count, upload_success, mark_err, pc_p, history_vars>>

\* upload_offline_buffer, lines 109-111
T_FlushClearBody ==
    /\ pc_u = "flush_clear_cs"
    /\ s_offline_buffer_count' = 0
    /\ s_offline_buffer' = <<>>
    /\ s_status' = [s_status EXCEPT !.offline_buffer_count = 0]
    /\ s_status_mutex' = "none"
    /\ pc_u' = "loop"
    /\ UNCHANGED <<calc_vars, store_vars, s_config, s_running, task_count,
                   s_trigger_sem, in_flight, st_call, ret_u, logs, actual_count,
                   retry_count, upload_success, mark_err, pc_p, history_vars>>

\* lines 381-382 and upload_logs_to_server, lines 119-278: the request for
\* the snapshot is built (the time repair is done on logs[]) and sent
T_SendBegin ==
    /\ pc_u = "loop"
    /\ retry_count < s_config.max_retries /\ ~upload_success /\ s_running
    /\ requests < MaxRequests
    /\ logs' = RepairTimestamps(logs, actual_count, time_synced)
    /\ in_flight' = in_flight + 1
    /\ requests' = requests + 1
    /\ pc_u' = "send_http"
    /\ UNCHANGED <<calc_vars, store_vars, uploader_vars, s_status_mutex, st_call,
                   ret_u, actual_count, retry_count, upload_success, mark_err, pc_p,
                   delivered, buffered, released, lock_timed_out, admit_space,
                   admit_dropped, cycle_appends, cycle>>

\* upload_logs_to_server, lines 279-333, for the snapshot: the answer; lines
\* 383-384
T_SendResult(outcome) ==
    /\ pc_u = "send_http"
    /\ in_flight' = in_flight - 1
    /\ upload_success' = (outcome = "ok")
    /\ CASE outcome = "ok" ->
              StatusCall("success", actual_count, "mark")
         [] outcome = "status_err" ->
              StatusCall("error", MSG_TRANSPORT, "retry")
         [] outcome = "silent_err" ->
              /\ pc_u' = "retry"
              /\ UNCHANGED <<st_call, ret_u>>
    /\ UNCHANGED <<calc_vars, store_vars, uploader_vars, s_status_mutex, logs,
                   actual_count, retry_count, mark_err, pc_p, history_vars>>

\* lines 388-398 and 403-405: count the failure; back off, or give up
T_Retry ==
    /\ pc_u = "retry"
    /\ retry_count' = retry_count + 1
    /\ IF retry_count + 1 < s_config.max_retries
       THEN /\ pc_u' = "backoff"
            /\ UNCHANGED <<st_call, ret_u>>
       ELSE IF s_config.enable_offline_buffering
            THEN /\ pc_u' = "admit"
                 /\ UNCHANGED <<st_call, ret_u>>
            ELSE StatusCall("error", MSG_EXHAUSTED, "wait")
    /\ UNCHANGED <<calc_vars, store_vars, uploader_vars, s_status_mutex, in_flight,
                   logs, actual_count, upload_success, mark_err, pc_p, history_vars>>

\* add_to_offline_buffer, lines 70-74
T_AdmitTake ==
    /\ pc_u = "admit"
    /\ s_status_mutex = "none"
    /\ s_status_mutex' = "uploader"
    /\ pc_u' = "admit_cs"
    /\ UNCHANGED <<calc_vars, store_vars, uploader_vars, in_flight, st_call, ret_u,
                   logs, actual_count, retry_count, upload_success, mark_err, pc_p,
                   history_vars>>

\* A variant of add_to_offline_buffer that returns with the status lock held.
T_AdmitBody_KeepLock ==
    /\ pc_u = "admit_cs"
    /\ LET r == AddToOfflineBuffer(s_offline_buffer, s_offline_buffer_count,
                                   s_config.offline_buffer_size, logs, actual_count)
       IN  /\ s_offline_buffer' = r.buf
           /\ s_offline_buffer_count' = r.count
           /\ s_status' = IF r.to_add > 0
                          THEN [s_status EXCEPT !.offline_buffer_count = r.count]
                          ELSE s_status
    /\ pc_u' = "mark"
    /\ UNCHANGED <<calc_vars, store_vars, s_config, s_running, task_count,
                   s_trigger_sem, s_status_mutex, in_flight, st_call, ret_u, logs,
                   actual_count, retry_count, upload_success, mark_err, pc_p,
                   history_vars>>

\* add_to_offline_buffer, lines 75-92
T_AdmitBody ==
    /\ pc_u = "admit_cs"
    /\ LET r == AddToOfflineBuffer(s_offline_buffer, s_offline_buffer_count,
                                   s_config.offline_buffer_size, logs, actual_count)
       IN  /\ s_offline_buffer' = r.buf
           /\ s_offline_buffer_count' = r.count
           /\ s_status' = IF r.to_add > 0
                          THEN [s_status EXCEPT !.offline_buffer_count = r.count]
                          ELSE s_status
    /\ s_status_mutex' = "none"
    /\ pc_u' = "mark"
    /\ UNCHANGED <<calc_vars, store_vars, s_config, s_running, task_count,
                   s_trigger_sem, in_flight, st_call, ret_u, logs, actual_count,
                   retry_count, upload_success, mark_err, pc_p, history_vars>>

\* What follows csv_logger_mark_uploaded: after a success (line 386) the loop
\* test fails; after the retries are exhausted lines 403-405 report it.
T_AfterMark ==
    IF upload_success
    THEN /\ pc_u' = "wait"
         /\ UNCHANGED <<st_call, ret_u>>
    ELSE StatusCall("error", MSG_EXHAUSTED, "wait")

\* csv_logger_mark_uploaded, lines 179-181: ESP_ERR_TIMEOUT
T_MarkTimeout ==
    /\ pc_u = "mark"
    /\ s_csv_mutex # "none"
    /\ mark_err' = "timeout"
    /\ lock_timed_out' = TRUE
    /\ T_AfterMark
    /\ UNCHANGED <<calc_vars, store_vars, uploader_vars, s_status_mutex, in_flight,
                   logs, actual_count, retry_count, upload_success, pc_p, delivered,
                   buffered, released, admit_space, admit_dropped, cycle_appends,
                   requests, cycle>>

\* csv_logger_mark_uploaded, lines 183-210
T_MarkBody ==
    /\ pc_u = "mark_cs"
    /\ LET r == MarkUploaded(s_log_buffer, s_log_count, actual_count)
       IN  /\ s_log_buffer' = r.buf
           /\ s_log_count' = r.cnt
           /\ free_calls' = ApplyFrees(free_calls, r.freed)
    /\ s_csv_mutex' = "none"
    /\ mark_err' = "ok"
    /\ T_AfterMark
    /\ UNCHANGED <<calc_vars, allocated, uptime, time_synced, uploader_vars,
                   s_status_mutex, in_flight, logs, actual_count, retry_count,
                   upload_success, pc_p, history_vars>>

NextTask ==
    \/ StartCreate
    \/ StartAgain
    \/ StartFail
    \/ P_Take
    \/ P_Timeout
    \/ P_Body(FALSE)
    \/ P_Trigger
    \/ U_WaitTriggered
    \/ U_WaitTimeout
    \/ U_Check
    \/ U_ReadTake
    \/ U_ReadTimeout
    \/ U_ReadBody
    \/ U_FlushSkip
    \/ T_FlushBegin
    \/ \E outcome \in Outcomes : T_FlushResult(outcome)
    \/ T_StatusTake
    \/ T_StatusBody
    \/ T_FlushClearTake
    \/ T_FlushClearBody
    \/ T_SendBegin
    \/ \E outcome \in Outcomes : T_SendResult(outcome)
    \/ T_Retry
    \/ U_Backoff
    \/ T_AdmitTake
    \/ T_AdmitBody
    \/ U_MarkTake
    \/ T_MarkTimeout
    \/ T_MarkBody

SpecTask == Init /\ [][NextTask]_vars

\* ------------------------------------- calculate_backoff_delay on its own
\* retry_backoff_base_ms and max_retry_delay_ms of device_config.h
RETRY_BACKOFF_BASE_MS == 1000
MAX_RETRY_DELAY_MS == 60000

\* 2^30: half the range of the positive values of a 32-bit int
TWO_30 == 1073741824

\* 2 * x in 32-bit two's complement, for x in -2^31 .. 2^31 - 1
Double32(x) ==
    IF x >= TWO_30 THEN ((x - TWO_30) - TWO_30) * 2
    ELSE IF x < -TWO_30 THEN ((x + TWO_30) + TWO_30) * 2
    ELSE 2 * x

\* x * 2^n in 32-bit two's complement
RECURSIVE Shl32(_, _)
Shl32(x, n) == IF n = 0 THEN x ELSE Shl32(Double32(x), n - 1)

\* base * 2^n fits a 32-bit int (base > 0)
RECURSIVE Fits32(_, _)
Fits32(base, n) ==
    IF n = 0 THEN TRUE
    ELSE IF base >= TWO_30 THEN FALSE
    ELSE Fits32(2 * base, n - 1)

\* calculate_backoff_delay, lines 32-42: the values the call can return.
\* While attempt <= 30 and base_delay * (1 << attempt) fits an int there is
\* one.  Otherwise line 34 overflows a signed int, or shifts by the width
\* of int or more: the product is what the wrapped multiplication leaves,
\* with the shift count taken as it is or modulo 32.
CalculateBackoffDelay(base_delay, max_delay, attempt) ==
    LET products == IF attempt <= 30 /\ Fits32(base_delay, attempt)
                    THEN {Shl32(base_delay, attempt)}
                    ELSE {Shl32(base_delay, attempt),
                          Shl32(base_delay, attempt % 32)}
    IN  {IF delay > max_delay THEN max_delay ELSE delay : delay \in products}

BackoffBases == {1, 7, RETRY_BACKOFF_BASE_MS}
BackoffCaps == {1, 30000, MAX_RETRY_DELAY_MS}

\* One call with positive configured values and an attempt index >= 0.
InitBackoff ==
    /\ ProgramInit
    /\ s_config = [max_retries |-> 1, max_batch_size |-> BatchCap,
                   enable_offline_buffering |-> TRUE,
                   offline_buffer_size |-> MinOfflineSize]
    /\ fn_args \in [base : BackoffBases, cap : BackoffCaps,
                     attempt : 0 .. MaxAttempt]
    /\ fn_result = <<>>

BackoffCall ==
    /\ fn_result = <<>>
    /\ \E delay \in CalculateBackoffDelay(fn_args.base, fn_args.cap,
                                           fn_args.attempt) :
           fn_result' = <<delay>>
    /\ UNCHANGED <<store_vars, uploader_vars, task_vars, pc_p, history_vars,
                   fn_args,
                   grain_vars>>

NextBackoff == BackoffCall

SpecBackoff == InitBackoff /\ [][NextBackoff]_vars

\* ------------------------------------- the retry loop of one delivery cycle
\* upload_task from line 378 to the end of the loop of lines 381-407, for a
\* snapshot of one record, with the delays it passes to vTaskDelay recorded
\* in fn_result.  fn_args holds retry_backoff_base_ms and max_retry_delay_ms.
\* s_config.max_retries is 1, the shipped 5, or MaxSchedRetries.
ScheduleConfigs ==
    {[max_retries |-> n, max_batch_size |-> BatchCap,
      enable_offline_buffering |-> TRUE,
      offline_buffer_size |-> MinOfflineSize] : n \in {1, 5, MaxSchedRetries}}

\* The task has read the only pending record and is at line 378; the
\* Offline Buffer is empty, so upload_offline_buffer has sent nothing.
InitSchedule ==
    LET stored == LogFaceStore([i \in Slots |-> ZeroEntry], 0,
                               NewEntry(FALSE, 1, FALSE))
        snap == ReadPendingLogs(stored.buf, stored.cnt, LOGS_LEN)
    IN  /\ s_log_buffer = stored.buf
        /\ s_log_count = stored.cnt
        /\ s_csv_mutex = "none"
        /\ allocated = {}
        /\ free_calls = [p \in Ptrs |-> 0]
        /\ uptime = 1
        /\ time_synced = FALSE
        /\ s_config \in ScheduleConfigs
        /\ s_running = TRUE
        /\ task_count = 1
        /\ s_trigger_sem = 0
        /\ s_status = InitialStatus
        /\ s_offline_buffer = <<>>
        /\ s_offline_buffer_count = 0
        /\ pc_u = "loop"
        /\ logs = snap.logs
        /\ actual_count = snap.actual_count
        /\ retry_count = 0
        /\ upload_success = FALSE
        /\ mark_err = "none"
        /\ pc_p = "idle"
        /\ delivered = {}
        /\ buffered = {}
        /\ released = {}
        /\ lock_timed_out = FALSE
        /\ admit_space = 0
        /\ admit_dropped = FALSE
        /\ cycle_appends = FALSE
        /\ requests = 0
        /\ cycle = NoCycle
        /\ s_status_mutex = "none"
        /\ in_flight = 0
        /\ st_call = NoCall
        /\ ret_u = "none"
        /\ fn_args \in [base : BackoffBases, cap : BackoffCaps]
        /\ fn_result = <<>>

\* lines 381-386: an attempt answered with HTTP 200, the release, the loop
\* test fails
S_SendOk ==
    /\ pc_u = "loop"
    /\ retry_count < s_config.max_retries /\ ~upload_success /\ s_running
    /\ LET r == UploadLogsToServer(s_status, logs, actual_count, time_synced, "ok")
           m == MarkUploaded(s_log_buffer, s_log_count, actual_count)
       IN  /\ logs' = r.logs
           /\ s_status' = r.status
           /\ delivered' = delivered \cup Uptimes(SubSeq(r.logs, 1, actual_count))
           /\ cycle' = Logged(cycle, "primary", TRUE, SubSeq(r.logs, 1, actual_count))
           /\ s_log_buffer' = m.buf
           /\ s_log_count' = m.cnt
           /\ free_calls' = ApplyFrees(free_calls, m.freed)
           /\ released' = released \cup m.released
    /\ upload_success' = TRUE
    /\ mark_err' = "ok"
    /\ requests' = requests + 1
    /\ pc_u' = "wait"
    /\ UNCHANGED <<calc_vars, grain_vars, s_csv_mutex, allocated, uptime, time_synced,
                   s_config, s_running, task_count, s_trigger_sem,
                   s_offline_buffer, s_offline_buffer_count, actual_count,
                   retry_count, pc_p, buffered, lock_timed_out, admit_space,
                   admit_dropped, cycle_appends>>

\* lines 381-394: an attempt that fails with attempts left; the task sleeps
\* calculate_backoff_delay(retry_count - 1) ms and is at the loop test again
S_SendFailRetry(outcome) ==
    /\ pc_u = "loop"
    /\ retry_count < s_config.max_retries /\ ~upload_success /\ s_running
    /\ outcome # "ok"
    /\ retry_count + 1 < s_config.max_retries
    /\ LET r == UploadLogsToServer(s_status, logs, actual_count, time_synced, outcome)
       IN  /\ logs' = r.logs
           /\ s_status' = r.status
           /\ cycle' = Logged(cycle, "primary", FALSE, SubSeq(r.logs, 1, actual_count))
    /\ retry_count' = retry_count + 1
    /\ \E delay_ms \in CalculateBackoffDelay(fn_args.base, fn_args.cap, retry_count' - 1) :
           fn_result' = Append(fn_result, delay_ms)
    /\ requests' = requests + 1
    /\ UNCHANGED <<fn_args, grain_vars, store_vars, s_config, s_running, task_count,
                   s_trigger_sem, s_offline_buffer, s_offline_buffer_count, pc_u,
                   actual_count, upload_success, mark_err, pc_p, delivered,
                   buffered, released, lock_timed_out, admit_space, admit_dropped,
                   cycle_appends>>

\* lines 381-405: the last attempt fails; the admission, the release and the
\* error report follow without a delay, and the loop test fails
S_SendFailLast(outcome) ==
    /\ pc_u = "loop"
    /\ retry_count < s_config.max_retries /\ ~upload_success /\ s_running
    /\ outcome # "ok"
    /\ retry_count + 1 >= s_config.max_retries
    /\ LET r == UploadLogsToServer(s_status, logs, actual_count, time_synced, outcome)
           a == AddToOfflineBuffer(s_offline_buffer, s_offline_buffer_count,
                                   s_config.offline_buffer_size, r.logs, actual_count)
           m == MarkUploaded(s_log_buffer, s_log_count, actual_count)
           st == IF a.to_add > 0
                 THEN [r.status EXCEPT !.offline_buffer_count = a.count]
                 ELSE r.status
       IN  /\ logs' = r.logs
           /\ cycle' = Logged(Logged(cycle, "primary", FALSE,
                                     SubSeq(r.logs, 1, actual_count)),
                              "exhausted", FALSE, <<>>)
           /\ s_offline_buffer' = a.buf
           /\ s_offline_buffer_count' = a.count
           /\ buffered' = buffered \cup Uptimes(SubSeq(r.logs, 1, Min(a.to_add, Len(r.logs))))
           /\ admit_space' = a.space
           /\ admit_dropped' = (admit_dropped \/ a.to_add < actual_count)
           /\ s_log_buffer' = m.buf
           /\ s_log_count' = m.cnt
           /\ free_calls' = ApplyFrees(free_calls, m.freed)
           /\ released' = released \cup m.released
           /\ s_status' = UpdateStatusError(st, MSG_EXHAUSTED)
    /\ retry_count' = retry_count + 1
    /\ mark_err' = "ok"
    /\ requests' = requests + 1
    /\ pc_u' = "wait"
    /\ UNCHANGED <<calc_vars, grain_vars, s_csv_mutex, allocated, uptime, time_synced,
                   s_config, s_running, task_count, s_trigger_sem, actual_count,
                   upload_success, pc_p, delivered, lock_timed_out, cycle_appends>>

NextSchedule ==
    \/ S_SendOk
    \/ \E outcome \in Outcomes : S_SendFailRetry(outcome)
    \/ \E outcome \in Outcomes : S_SendFailLast(outcome)

SpecSchedule == InitSchedule /\ [][NextSchedule]_vars

\* --------------------------- the time repair of upload_logs_to_server
\* 2024-01-01T00:00:00Z in seconds since the epoch: the clock counts as
\* synchronized from here (csv_logger.c) or after here (the uploader).
SYNC_THRESHOLD == 1704067200

\* C integer division, which truncates toward zero
CDiv(a, b) == IF a >= 0 THEN a \div b ELSE -((-a) \div b)

\* gmtime_r, strftime "%Y-%m-%dT%H:%M:%S" and strcat "Z": the text of a
\* timestamp, held as its fields and its suffix.
FormatUtc(t) ==
    LET days == t \div 86400
        rem  == t % 86400
        z    == days + 719468
        era  == z \div 146097
        doe  == z - era * 146097
        yoe  == (doe - doe \div 1460 + doe \div 36524 - doe \div 146096) \div 365
        doy  == doe - (365 * yoe + yoe \div 4 - yoe \div 100)
        mp   == (5 * doy + 2) \div 153
        m    == IF mp < 10 THEN mp + 3 ELSE mp - 9
    IN  [year |-> yoe + era * 400 + (IF m <= 2 THEN 1 ELSE 0),
         mon  |-> m,
         mday |-> doy - (153 * mp + 2) \div 5 + 1,
         hour |-> rem \div 3600,
         min  |-> (rem % 3600) \div 60,
         sec  |-> rem % 60,
         zone |-> "Z"]

\* the literal "1970-01-01T00:00:00Z" of get_current_timestamp
PlaceholderStamp ==
    [year |-> 1970, mon |-> 1, mday |-> 1, hour |-> 0, min |-> 0, sec |-> 0,
     zone |-> "Z"]

\* get_current_timestamp, csv_logger.c lines 21-41, with the clock at now
StampAt(now) == IF now < SYNC_THRESHOLD THEN PlaceholderStamp ELSE FormatUtc(now)

\* line 146: strncmp(timestamp, "1970", 4) == 0 or
\* strncmp(timestamp, "2025-12-01", 10) == 0
NeedsRepair(ts) ==
    \/ ts.year = 1970
    \/ ts.year = 2025 /\ ts.mon = 12 /\ ts.mday = 1

\* A variant of the repair that counts the age forward instead of back.
TimeRepair_Forward(lg, count, now_sec, now_uptime) ==
    [i \in 1 .. Len(lg) |->
        IF i <= count /\ now_sec > SYNC_THRESHOLD /\ NeedsRepair(lg[i].timestamp)
        THEN [lg[i] EXCEPT !.timestamp =
                 FormatUtc(now_sec + CDiv(now_uptime - lg[i].uptime_us, 1000000))]
        ELSE lg[i]]

\* A variant of the repair that does not ask whether the clock is synchronized.
TimeRepair_Unsynced(lg, count, now_sec, now_uptime) ==
    [i \in 1 .. Len(lg) |->
        IF i <= count /\ NeedsRepair(lg[i].timestamp)
        THEN [lg[i] EXCEPT !.timestamp =
                 FormatUtc(now_sec - CDiv(now_uptime - lg[i].uptime_us, 1000000))]
        ELSE lg[i]]

\* upload_logs_to_server, lines 137-157: the time repair with the clock at
\* now_sec and the monotonic clock at now_uptime, done in place on the array
\* the caller passed.
TimeRepair(lg, count, now_sec, now_uptime) ==
    [i \in 1 .. Len(lg) |->
        IF i <= count /\ now_sec > SYNC_THRESHOLD /\ NeedsRepair(lg[i].timestamp)
        THEN [lg[i] EXCEPT !.timestamp =
                 FormatUtc(now_sec - CDiv(now_uptime - lg[i].uptime_us, 1000000))]
        ELSE lg[i]]

\* upload_logs_to_server, lines 119-334, with the clocks read at line 139:
\* the array after the call, the "timestamp" strings of the payload
\* (line 160), the status and the result.  count = 0 returns ESP_OK at once.
UploadLogsToServerAt(st, lg, count, now_sec, now_uptime, outcome) ==
    IF count = 0
    THEN [logs |-> lg, payload |-> <<>>, status |-> st, ok |-> TRUE]
    ELSE LET after == TimeRepair(lg, count, now_sec, now_uptime)
         IN  [logs |-> after,
              payload |-> [i \in 1 .. count |-> after[i].timestamp],
              status |-> CASE outcome = "ok" -> UpdateStatusSuccess(st, count)
                           [] outcome = "status_err" -> UpdateStatusError(st, MSG_TRANSPORT)
                           [] outcome = "silent_err" -> st,
              ok |-> (outcome = "ok")]

\* Wall clock readings at capture: before any synchronization, at the
\* threshold, on 2025-12-01, and on 2026-01-01.
CaptureWalls == {5, SYNC_THRESHOLD, 1764590400, 1767225600}
\* Wall clock readings at serialization: not synchronized, at the threshold,
\* just after it, 50 s after 2024-02-29T23:59:59Z, at 2025-12-01T12:00:01Z
\* and after 2026-01-01T00:00:00Z.
NowSecs == {100, SYNC_THRESHOLD, SYNC_THRESHOLD + 1, 1709251249, 1764590401,
            1767225650}
\* Monotonic clock readings at serialization (microseconds)
NowUptimes == {50000000, 50999999}
\* Ages of a record at serialization (microseconds)
RepairAges == {0, 999999, 1000000, 50000000}

\* The records that can be pending with the clocks at now_sec and now_uptime:
\* a record stamped by a synchronized clock is not newer than now_sec.
EntriesAt(now_sec, now_uptime) ==
    {[timestamp |-> StampAt(c), image_ptr |-> 0, uptime_us |-> now_uptime - age] :
        c \in {w \in CaptureWalls : w < SYNC_THRESHOLD \/ w <= now_sec},
        age \in RepairAges}

BatchesAt(now_sec, now_uptime) ==
    UNION {[1 .. n -> EntriesAt(now_sec, now_uptime)] : n \in 0 .. MaxBatch}

\* One call of upload_logs_to_server on logs[] (target "logs"), or of
\* upload_offline_buffer (target "offline"), on a batch of pending records.
\* logs[] is the snapshot of the Log Store (csv_logger_read_pending_logs,
\* line 363), which still holds the records.
InitRepair ==
    /\ s_csv_mutex = "none"
    /\ allocated = {}
    /\ free_calls = [p \in Ptrs |-> 0]
    /\ uptime = 0
    /\ time_synced = FALSE
    /\ s_config = [max_retries |-> 1, max_batch_size |-> BatchCap,
                   enable_offline_buffering |-> TRUE,
                   offline_buffer_size |-> MaxOfflineSize]
    /\ s_running = TRUE
    /\ task_count = 1
    /\ s_trigger_sem = 0
    /\ retry_count = 0
    /\ upload_success = FALSE
    /\ mark_err = "none"
    /\ pc_p = "idle"
    /\ delivered = {}
    /\ buffered = {}
    /\ released = {}
    /\ lock_timed_out = FALSE
    /\ admit_space = 0
    /\ admit_dropped = FALSE
    /\ cycle_appends = FALSE
    /\ requests = 0
    /\ cycle = NoCycle
    /\ s_status_mutex = "none"
    /\ in_flight = 0
    /\ st_call = NoCall
    /\ ret_u = "none"
    /\ fn_result = <<>>
    /\ \E now_sec \in NowSecs, now_uptime \in NowUptimes, target \in {"logs", "offline"} :
       \E batch \in BatchesAt(now_sec, now_uptime) :
           /\ fn_args = [now_sec |-> now_sec, now_uptime |-> now_uptime,
                         batch |-> batch, target |-> target]
           /\ IF target = "logs"
              THEN /\ pc_u = "loop"
                   /\ s_log_buffer = [i \in Slots |->
                                         IF i < Len(batch) THEN batch[i + 1]
                                         ELSE ZeroEntry]
                   /\ s_log_count = Len(batch)
                   /\ logs = batch
                   /\ actual_count = Len(batch)
                   /\ s_offline_buffer = <<>>
                   /\ s_offline_buffer_count = 0
                   /\ s_status = InitialStatus
              ELSE /\ pc_u = "flush"
                   /\ s_log_buffer = [i \in Slots |-> ZeroEntry]
                   /\ s_log_count = 0
                   /\ logs = <<>>
                   /\ actual_count = 0
                   /\ s_offline_buffer = batch
                   /\ s_offline_buffer_count = Len(batch)
                   /\ s_status = [InitialStatus EXCEPT !.offline_buffer_count = Len(batch)]

\* A variant of the call that works on the records of the Log Store.
UploadCall_InPlace(outcome) ==
    /\ fn_result = <<>>
    /\ fn_args.target = "logs"
    /\ LET r == UploadLogsToServerAt(s_status, logs, actual_count, fn_args.now_sec,
                                     fn_args.now_uptime, outcome)
       IN  /\ logs' = r.logs
           /\ s_log_buffer' = [i \in Slots |->
                                  IF i < actual_count THEN r.logs[i + 1]
                                  ELSE s_log_buffer[i]]
           /\ s_status' = r.status
           /\ fn_result' = <<[payload |-> r.payload, ok |-> r.ok]>>
    /\ UNCHANGED <<s_log_count, s_csv_mutex, allocated, free_calls, uptime,
                   time_synced, s_config, s_running, task_count, s_trigger_sem,
                   s_offline_buffer, s_offline_buffer_count, pc_u, actual_count,
                   retry_count, upload_success, mark_err, pc_p, history_vars, fn_args,
                   grain_vars>>

\* upload_logs_to_server(logs, actual_count), line 381
UploadCall(outcome) ==
    /\ fn_result = <<>>
    /\ fn_args.target = "logs"
    /\ LET r == UploadLogsToServerAt(s_status, logs, actual_count, fn_args.now_sec,
                                     fn_args.now_uptime, outcome)
       IN  /\ logs' = r.logs
           /\ s_status' = r.status
           /\ fn_result' = <<[payload |-> r.payload, ok |-> r.ok]>>
    /\ UNCHANGED <<store_vars, s_config, s_running, task_count, s_trigger_sem,
                   s_offline_buffer, s_offline_buffer_count, pc_u, actual_count,
                   retry_count, upload_success, mark_err, pc_p, history_vars, fn_args,
                   grain_vars>>

\* A variant of the flush that empties the buffer whatever the answer is.
FlushCall_Clear(outcome) ==
    /\ fn_result = <<>>
    /\ fn_args.target = "offline"
    /\ LET r == UploadLogsToServerAt(s_status, s_offline_buffer, s_offline_buffer_count,
                                     fn_args.now_sec, fn_args.now_uptime, outcome)
       IN  /\ s_offline_buffer' = r.logs
           /\ s_offline_buffer_count' = 0
           /\ s_status' = [r.status EXCEPT !.offline_buffer_count = 0]
           /\ fn_result' = <<[payload |-> r.payload, ok |-> r.ok]>>
    /\ UNCHANGED <<store_vars, s_config, s_running, task_count, s_trigger_sem,
                   task_vars, pc_p, history_vars, fn_args,
                   grain_vars>>

\* upload_offline_buffer, lines 99-117
FlushCall(outcome) ==
    /\ fn_result = <<>>
    /\ fn_args.target = "offline"
    /\ IF ~s_config.enable_offline_buffering \/ s_offline_buffer_count = 0
       THEN /\ fn_result' = <<[payload |-> <<>>, ok |-> TRUE]>>
            /\ UNCHANGED <<s_offline_buffer, s_offline_buffer_count, s_status>>
       ELSE LET r == UploadLogsToServerAt(s_status, s_offline_buffer,
                                          s_offline_buffer_count, fn_args.now_sec,
                                          fn_args.now_uptime, outcome)
            IN  /\ s_offline_buffer' = r.logs
                /\ s_offline_buffer_count' = IF r.ok THEN 0 ELSE s_offline_buffer_count
                /\ s_status' = IF r.ok
                               THEN [r.status EXCEPT !.offline_buffer_count = 0]
                               ELSE r.status
                /\ fn_result' = <<[payload |-> r.payload, ok |-> r.ok]>>
    /\ UNCHANGED <<store_vars, s_config, s_running, task_count, s_trigger_sem,
                   task_vars, pc_p, history_vars, fn_args,
                   grain_vars>>

NextRepair ==
    \/ \E outcome \in Outcomes : UploadCall(outcome)
    \/ \E outcome \in Outcomes : FlushCall(outcome)

SpecRepair == InitRepair /\ [][NextRepair]_vars

\* ======================================================= Log Store claims
\* The claims about one call are stated for the call made in any state the
\* store can reach, with any argument.
Pending == Live(s_log_buffer, s_log_count)
LiveImages == {Pending[i].image_ptr : i \in 1 .. Len(Pending)} \ {0}
Occurrences(seq, x) == Cardinality({i \in 1 .. Len(seq) : seq[i] = x})

C5_FifoSnapshot ==
    \A k \in 0 .. MaxArg :
        LET r == ReadPendingLogs(s_log_buffer, s_log_count, k)
            out == r.logs
        IN  /\ r.actual_count = Min(k, s_log_count)
            /\ Len(out) = r.actual_count
            /\ \A i \in 1 .. Len(out) :
                  /\ \E j \in 1 .. Len(Pending) : Pending[j] = out[i]
                  /\ \A j \in 1 .. Len(out) :
                        i < j => out[i].uptime_us < out[j].uptime_us
                  /\ \A j \in 1 .. Len(Pending) :
                        Pending[j].uptime_us \notin Uptimes(out)
                            => out[i].uptime_us < Pending[j].uptime_us

\* A snapshot of 2 of 4 pending records, taken after earlier records left.
C5_Witness ==
    /\ actual_count = 2
    /\ s_log_count = 4
    /\ logs[1].uptime_us = 3
    /\ logs[2].uptime_us = 4

\* C6: read_pending_logs changes neither the occupancy nor any stored
\* record.
C6_SnapshotReadOnly ==
    \A k \in 0 .. MaxArg :
        LET r == ReadPendingLogs(s_log_buffer, s_log_count, k)
        IN  r.cnt = s_log_count /\ r.buf = s_log_buffer

\* A snapshot of all three pending records, which are still pending.
C6_Witness ==
    /\ actual_count = 3
    /\ s_log_count = 3
    /\ logs = Pending

\* C7: mark_uploaded(n) with 0 <= n < count removes the n oldest records,
\* lowers the occupancy by n and keeps the others in order at the front.
C7_ReleaseFront ==
    \A n \in 0 .. MaxArg :
        n < s_log_count =>
            LET r == MarkUploaded(s_log_buffer, s_log_count, n)
            IN  /\ r.cnt = s_log_count - n
                /\ Live(r.buf, r.cnt) = SubSeq(Pending, n + 1, s_log_count)

\* Records 1 and 2 of 1..4 were released: 3 and 4 were moved to the front
\* and their old slots still hold the copies.
C7_Witness ==
    /\ s_log_count = 2
    /\ s_log_buffer[0].uptime_us = 3
    /\ s_log_buffer[1].uptime_us = 4
    /\ s_log_buffer[2].uptime_us = 3
    /\ s_log_buffer[3].uptime_us = 4

\* C8: mark_uploaded(n) with n >= count empties the store and calls free
\* exactly once on every stored image buffer and on nothing else; on the
\* store it has emptied, the same call changes nothing and frees nothing.
C8_ReleaseAll ==
    \A n \in 0 .. MaxArg :
        n >= s_log_count =>
            LET r == MarkUploaded(s_log_buffer, s_log_count, n)
                again == MarkUploaded(r.buf, r.cnt, n)
            IN  /\ r.cnt = 0
                /\ \A p \in Ptrs :
                      Occurrences(r.freed, p) = IF p \in LiveImages THEN 1 ELSE 0
                /\ again.cnt = 0
                /\ again.buf = r.buf
                /\ again.freed = <<>>

\* Three records with images were released together: nothing was compacted
\* and each image was freed.
C8_Witness ==
    /\ s_log_count = 0
    /\ uptime = 3
    /\ \A i \in 0 .. 2 : s_log_buffer[i].uptime_us = i + 1
    /\ \A p \in 1 .. 3 : p \in allocated /\ free_calls[p] = 1

\* C9: an image buffer is freed exactly once when its record leaves the
\* store, by eviction or by release, and not before: a buffer malloc
\* returned is either referenced by exactly one pending record and not
\* freed, or referenced by none and freed once.
C9_FreedExactlyOnce ==
    \A p \in Ptrs :
        LET refs == {i \in 1 .. Len(Pending) : Pending[i].image_ptr = p}
        IN  IF p \in allocated
            THEN \/ Cardinality(refs) = 1 /\ free_calls[p] = 0
                 \/ Cardinality(refs) = 0 /\ free_calls[p] = 1
            ELSE refs = {} /\ free_calls[p] = 0

\* Record 1 left a full store by eviction, record 2 by release; both had
\* images.
C9_Witness ==
    /\ uptime = MAX_LOG_ENTRIES + 1
    /\ s_log_count = MAX_LOG_ENTRIES - 1
    /\ s_log_buffer[0].uptime_us = 3
    /\ {1, 2} \subseteq allocated
    /\ free_calls[1] = 1
    /\ free_calls[2] = 1
    /\ LiveImages # {}

\* ================================================= delivery pipeline claims
\* C1: with no lock acquisition timed out and free space for every batch
\* offered to the Offline Buffer, every record csv_logger_mark_uploaded has
\* removed from the Log Store was in a request answered with HTTP 200 or
\* was copied into the Offline Buffer.
C1_AtLeastOnce ==
    (~lock_timed_out /\ ~admit_dropped) =>
        released \subseteq (delivered \cup buffered)

\* C3: the Offline Buffer occupancy stays within 0 .. offline_buffer_size
\* through every admission and flush.
C3_OfflineBufferBounded ==
    /\ 0 <= s_offline_buffer_count
    /\ s_offline_buffer_count <= s_config.offline_buffer_size

\* An admission found fewer free slots than records and filled the buffer.
C3_Witness ==
    /\ admit_dropped
    /\ admit_space > 0
    /\ s_offline_buffer_count = s_config.offline_buffer_size

\* A cycle with buffering enabled whose max_retries attempts all failed has
\* ended: the task is back at its wait and holds the snapshot in logs[].
ExhaustedCycle ==
    /\ pc_u = "wait"
    /\ s_config.enable_offline_buffering
    /\ actual_count > 0
    /\ ~upload_success
    /\ retry_count = s_config.max_retries

\* The n snapshot records are the last n of the Offline Buffer, none of
\* them is pending any more, and the Log Store is empty unless a record
\* was appended since the snapshot.
SnapshotMoved ==
    /\ s_offline_buffer_count >= actual_count
    /\ SubSeq(s_offline_buffer, s_offline_buffer_count - actual_count + 1,
              s_offline_buffer_count) = SubSeq(logs, 1, actual_count)
    /\ Uptimes(SubSeq(logs, 1, actual_count)) \cap Uptimes(Pending) = {}
    /\ (~cycle_appends => s_log_count = 0)

AllAttemptsFailed ==
    /\ pc_u = "wait"
    /\ actual_count > 0
    /\ ~upload_success
    /\ retry_count = s_config.max_retries

\* The uptimes of the records of the snapshot held in logs[].
Snapshot == Uptimes(SubSeq(logs, 1, actual_count))

\* C11 as stated: when all attempts of a cycle fail, release_front(n) is
\* applied whether offline buffering is enabled or disabled, so that none of
\* the n snapshot records is pending any more.
C11_ReleasedInAllCases ==
    AllAttemptsFailed => Snapshot \cap Uptimes(Pending) = {}

\* C11, amended: with offline buffering enabled (and the Log Store lock
\* acquired by csv_logger_mark_uploaded) none of the snapshot records is
\* pending any more; with offline buffering disabled release_front is not
\* called: no snapshot record has been released, and each is still pending
\* unless a later append to the full store evicted it.
C11_ReleasedOnlyIfBuffering ==
    AllAttemptsFailed =>
        IF s_config.enable_offline_buffering
        THEN mark_err = "ok" => Snapshot \cap Uptimes(Pending) = {}
        ELSE /\ Snapshot \cap released = {}
             /\ \A u \in Snapshot :
                    \/ u \in Uptimes(Pending)
                    \/ s_log_count = MAX_LOG_ENTRIES /\ u < Pending[1].uptime_us

\* Buffering is disabled, all attempts failed, and the two snapshot records
\* are still the pending ones.
C11_Witness ==
    /\ AllAttemptsFailed
    /\ ~s_config.enable_offline_buffering
    /\ actual_count = 2
    /\ Snapshot = Uptimes(Pending)
    /\ s_status.last_error = MSG_EXHAUSTED

\* C12 (Scenario C): from a freshly initialised Status Register and an empty
\* Offline Buffer, with max_retries = 3 and a cycle whose 3 attempts all
\* fail, the cycle ends with consecutive_failures = 3, is_online false and
\* last_error non-empty.
C12_ScenarioCStatus ==
    (/\ AllAttemptsFailed
     /\ s_config.max_retries = 3
     /\ cycle.status0 = InitialStatus
     /\ cycle.ob0 = <<>>)
        => /\ s_status.consecutive_failures = 3
           /\ ~s_status.is_online
           /\ s_status.last_error # ""

\* The capture uptimes of a batch, in batch order.
UptimeSeq(batch) == [i \in 1 .. Len(batch) |-> batch[i].uptime_us]

\* A cycle has ended whose requests were all answered with HTTP 200.
AllRequestsOk ==
    /\ pc_u = "wait"
    /\ upload_success
    /\ \A i \in 1 .. Len(cycle.events) : cycle.events[i].ok

\* C13 (Scenario D): a cycle that starts with k > 0 records in the Offline
\* Buffer and m > 0 pending records, and whose requests all get HTTP 200,
\* sends the whole Offline Buffer first as one request, then the pending
\* batch, and ends with offline_buffer_count = 0 and successful_uploads
\* increased by exactly k + m.
C13_ScenarioD ==
    (AllRequestsOk /\ cycle.ob0 # <<>>) =>
        /\ Len(cycle.events) = 2
        /\ cycle.events[1].kind = "flush"
        /\ UptimeSeq(cycle.events[1].batch) = UptimeSeq(cycle.ob0)
        /\ cycle.events[2].kind = "primary"
        /\ UptimeSeq(cycle.events[2].batch) = UptimeSeq(SubSeq(logs, 1, actual_count))
        /\ s_offline_buffer_count = 0
        /\ s_status.offline_buffer_count = 0
        /\ s_status.successful_uploads =
               cycle.status0.successful_uploads + Len(cycle.ob0) + actual_count

\* Two buffered records and at least one pending record were delivered by
\* one cycle.
C13_Witness ==
    /\ AllRequestsOk
    /\ Len(cycle.ob0) = 2
    /\ actual_count >= 1
    /\ Len(cycle.events) = 2
    /\ s_status.successful_uploads = 2 + actual_count
    /\ s_offline_buffer_count = 0

\* A cycle has ended with a primary attempt answered with HTTP 200.
CycleSucceeded == pc_u = "wait" /\ upload_success

\* The number of records the cycle's flush delivered (0 without a flush or
\* when it failed).
Flushed ==
    IF cycle.events # <<>> /\ cycle.events[1].kind = "flush" /\ cycle.events[1].ok
    THEN Len(cycle.events[1].batch)
    ELSE 0

\* The primary attempts of the cycle, in order.
Primaries == SelectSeq(cycle.events, LAMBDA e : e.kind = "primary")

\* What the success path does apart from the release: the attempt answered
\* with HTTP 200 is the last event of the cycle, successful_uploads has grown
\* by n, consecutive_failures is 0, and the Offline Buffer holds what it held
\* after the flush.
SuccessEffects ==
    /\ cycle.events[Len(cycle.events)] =
           [kind |-> "primary", ok |-> TRUE, batch |-> SubSeq(logs, 1, actual_count)]
    /\ Len(Primaries) = retry_count + 1
    /\ \A i \in 1 .. retry_count : ~Primaries[i].ok
    /\ s_status.successful_uploads =
           cycle.status0.successful_uploads + Flushed + actual_count
    /\ s_status.consecutive_failures = 0
    /\ UptimeSeq(s_offline_buffer) =
           IF Flushed > 0 THEN <<>> ELSE UptimeSeq(cycle.ob0)

Exhaustions == SelectSeq(cycle.events, LAMBDA e : e.kind = "exhausted")

\* The positions of the delivery task inside the retry loop (lines 381-407).
InRetryLoop == pc_u \in {"loop", "backoff", "mark", "mark_cs"}

\* At most max_retries primary attempts, exactly max_retries when all fail,
\* and the exhaustion path at most once, only after the last failure.
BoundedAttempts ==
    /\ Len(Primaries) <= s_config.max_retries
    /\ Len(Exhaustions) <= 1
    /\ (InRetryLoop \/ pc_u = "wait") =>
           /\ retry_count <= s_config.max_retries
           /\ (Len(Exhaustions) = 1 =>
                  /\ Len(Primaries) = s_config.max_retries
                  /\ \A i \in 1 .. Len(Primaries) : ~Primaries[i].ok
                  /\ cycle.events[Len(cycle.events)].kind = "exhausted")
    /\ pc_u \in {"loop", "backoff"} =>
           /\ retry_count < s_config.max_retries
           /\ Len(Primaries) = retry_count
           /\ Exhaustions = <<>>
    /\ AllAttemptsFailed =>
           /\ Len(Primaries) = s_config.max_retries
           /\ Len(Exhaustions) = 1

\* A measure of what is left of the retry loop: it is 0 at the Wait step.
LoopRank ==
    5 * (s_config.max_retries - retry_count)
      + (CASE pc_u = "backoff" -> 4
           [] pc_u = "loop" -> 3
           [] pc_u = "mark" -> 2
           [] pc_u = "mark_cs" -> 1
           [] OTHER -> 0)

\* Every step the delivery task takes inside the retry loop lowers the
\* measure, so the loop is left after a bounded number of steps.
LoopProgress ==
    (InRetryLoop /\ <<pc_u, retry_count>>' # <<pc_u, retry_count>>) =>
        /\ LoopRank' < LoopRank
        /\ LoopRank' >= 0
        /\ InRetryLoop' \/ pc_u' = "wait"

\* C15: each cycle makes at most max_retries primary attempts (exactly
\* max_retries when every attempt fails), runs the exhaustion path at most
\* once and then returns to the Wait step; no cycle retries forever.
C15_BoundedRetries == []BoundedAttempts /\ [][LoopProgress]_vars

\* All MaxRetries attempts of a cycle failed, the exhaustion path ran once
\* and the task is back at the Wait step.
C15_Witness ==
    /\ AllAttemptsFailed
    /\ s_config.max_retries = MaxRetries
    /\ Len(Primaries) = MaxRetries
    /\ Len(Exhaustions) = 1
    /\ LoopRank = 0

\* min(base * 2^n, cap) over the integers, for 0 < base and 0 < cap <= 2^30
RECURSIVE MinScaled(_, _, _)
MinScaled(base, cap, n) ==
    IF base >= cap THEN cap
    ELSE IF n = 0 THEN base
    ELSE MinScaled(2 * base, cap, n - 1)

\* C16: calculate_backoff_delay(a) = min(base * 2^a, cap) for every attempt
\* index a >= 0 and every positive base and cap, as the code computes it in
\* 32-bit int arithmetic; hence it never exceeds cap and is not below any
\* value the call can return for a - 1.
C16_Backoff ==
    fn_result # <<>> =>
        /\ fn_result[1] = MinScaled(fn_args.base, fn_args.cap, fn_args.attempt)
        /\ fn_result[1] <= fn_args.cap
        /\ fn_args.attempt > 0 =>
               \A d \in CalculateBackoffDelay(fn_args.base, fn_args.cap,
                                               fn_args.attempt - 1) :
                   d <= fn_result[1]

\* The step of the exhaustion path that calls add_to_offline_buffer.
AdmitStep ==
    /\ Len(Exhaustions') > Len(Exhaustions)
    /\ s_config.enable_offline_buffering

\* C17: admitting the snapshot of M records into an Offline Buffer with
\* space = capacity - occupancy free slots adds exactly min(M, space)
\* records: the first ones of the batch, in batch order, after the existing
\* contents, which are unchanged; the rest of the batch is not stored.
C17_AdmitPolicy ==
    [][AdmitStep =>
         LET M == actual_count
             occ == s_offline_buffer_count
             space == s_config.offline_buffer_size - occ
             k == Min(M, space)
         IN  /\ s_offline_buffer_count' = occ + k
             /\ SubSeq(s_offline_buffer', 1, occ) = SubSeq(s_offline_buffer, 1, occ)
             /\ SubSeq(s_offline_buffer', occ + 1, occ + k) = SubSeq(logs', 1, k)
             /\ admit_space' = space]_vars

\* A batch of at least two records has just been admitted into a buffer that
\* held a record and had room for only one more.
C17_Witness ==
    /\ pc_u = "mark"
    /\ Len(Exhaustions) = 1
    /\ s_config.enable_offline_buffering
    /\ actual_count >= 2
    /\ admit_space = 1
    /\ s_offline_buffer_count = s_config.offline_buffer_size
    /\ s_offline_buffer_count = 2
    /\ s_offline_buffer[2] = logs[1]
    /\ s_offline_buffer[1] # logs[1]

\* ------------------------------------------------- timestamps, read back
IsLeap(y) == (y % 4 = 0 /\ y % 100 # 0) \/ y % 400 = 0

DaysInMonth(y, m) ==
    IF m = 2 THEN (IF IsLeap(y) THEN 29 ELSE 28)
    ELSE IF m \in {4, 6, 9, 11} THEN 30 ELSE 31

\* days from 1970-01-01 to the first day of year y
RECURSIVE DaysBeforeYear(_)
DaysBeforeYear(y) ==
    IF y <= 1970 THEN 0
    ELSE DaysBeforeYear(y - 1) + (IF IsLeap(y - 1) THEN 366 ELSE 365)

\* days from the first day of year y to the first day of its month m
RECURSIVE DaysBeforeMonth(_, _)
DaysBeforeMonth(y, m) ==
    IF m <= 1 THEN 0 ELSE DaysBeforeMonth(y, m - 1) + DaysInMonth(y, m - 1)

\* the text is a date and a time of day of the calendar, in UTC
WellFormedStamp(ts) ==
    /\ ts.year >= 1970
    /\ ts.mon \in 1 .. 12
    /\ ts.mday \in 1 .. DaysInMonth(ts.year, ts.mon)
    /\ ts.hour \in 0 .. 23
    /\ ts.min \in 0 .. 59
    /\ ts.sec \in 0 .. 59
    /\ ts.zone = "Z"

\* the instant a timestamp text names, in seconds since the epoch
EpochSeconds(ts) ==
    (DaysBeforeYear(ts.year) + DaysBeforeMonth(ts.year, ts.mon) + ts.mday - 1) * 86400
        + ts.hour * 3600 + ts.min * 60 + ts.sec

\* The array a call has worked on, and its occupancy, after the call.
CallArray == IF fn_args.target = "logs" THEN logs ELSE s_offline_buffer
CallDone == fn_result # <<>>
FlushDone == CallDone /\ fn_args.target = "offline" /\ Len(fn_args.batch) > 0
ClockSynced == fn_args.now_sec > SYNC_THRESHOLD
AgeSeconds(i) == (fn_args.now_uptime - fn_args.batch[i].uptime_us) \div 1000000

\* C18 (as stated): a flush sends the whole Offline Buffer as one request;
\* when it succeeds the buffer is empty, and when it fails the occupancy
\* and every stored record, timestamp included, are as before the attempt.
C18_FlushAllOrNothing ==
    FlushDone =>
        /\ Len(fn_result[1].payload) = Len(fn_args.batch)
        /\ fn_result[1].ok => s_offline_buffer_count = 0
        /\ ~fn_result[1].ok =>
               /\ s_offline_buffer_count = Len(fn_args.batch)
               /\ s_offline_buffer = fn_args.batch

\* C18 (amended): a flush sends the whole Offline Buffer as one request;
\* when it succeeds the buffer is empty; when it fails the occupancy and
\* every stored record are as before, except that with the clock
\* synchronized a stored timestamp that begins with 1970 or 2025-12-01 has
\* been replaced by the repaired time now_wall - age (whole seconds, UTC).
C18_FlushKeepsAllButRepaired ==
    FlushDone =>
        /\ Len(fn_result[1].payload) = Len(fn_args.batch)
        /\ fn_result[1].ok => s_offline_buffer_count = 0
        /\ ~fn_result[1].ok =>
               /\ s_offline_buffer_count = Len(fn_args.batch)
               /\ Len(s_offline_buffer) = Len(fn_args.batch)
               /\ \A i \in 1 .. Len(fn_args.batch) :
                      LET old == fn_args.batch[i]
                          new == s_offline_buffer[i]
                      IN  /\ [new EXCEPT !.timestamp = old.timestamp] = old
                          /\ fn_result[1].payload[i] = new.timestamp
                          /\ IF ClockSynced /\ NeedsRepair(old.timestamp)
                             THEN /\ WellFormedStamp(new.timestamp)
                                  /\ EpochSeconds(new.timestamp)
                                         = fn_args.now_sec - AgeSeconds(i)
                             ELSE new.timestamp = old.timestamp

\* A flush of two records has failed with the clock synchronized, and the
\* placeholder timestamp of the first stored record has been rewritten.
C18_Witness ==
    /\ FlushDone
    /\ ~fn_result[1].ok
    /\ ClockSynced
    /\ s_offline_buffer_count = 2
    /\ fn_args.batch[1].timestamp = PlaceholderStamp
    /\ s_offline_buffer[1].timestamp # PlaceholderStamp
    /\ s_offline_buffer[2] = fn_args.batch[2]

\* C19: with the wall clock synchronized at serialization, a record that
\* carries the placeholder 1970-01-01T00:00:00Z and was captured D
\* microseconds ago on the monotonic clock is transmitted with the
\* timestamp of now_wall - D / 1000000 (whole seconds), in UTC with a
\* trailing Z.
C19_RepairedTimestamp ==
    (CallDone /\ ClockSynced) =>
        \A i \in 1 .. Len(fn_args.batch) :
            fn_args.batch[i].timestamp = PlaceholderStamp =>
                /\ WellFormedStamp(fn_result[1].payload[i])
                /\ fn_result[1].payload[i].zone = "Z"
                /\ EpochSeconds(fn_result[1].payload[i])
                       = fn_args.now_sec - AgeSeconds(i)

\* A placeholder record captured 50,000,000 microseconds before a
\* serialization at 2024-03-01T00:00:49Z has been sent as 2024-02-29T23:59:59Z.
C19_Witness ==
    /\ CallDone
    /\ fn_args.now_sec = 1709251249
    /\ Len(fn_args.batch) >= 1
    /\ fn_args.batch[1].timestamp = PlaceholderStamp
    /\ fn_args.now_uptime - fn_args.batch[1].uptime_us = 50000000
    /\ fn_result[1].payload[1] =
           [year |-> 2024, mon |-> 2, mday |-> 29, hour |-> 23, min |-> 59,
            sec |-> 59, zone |-> "Z"]
    /\ EpochSeconds(fn_result[1].payload[1]) = fn_args.now_sec - 50

\* C20: when the wall clock is not after 2024-01-01T00:00:00Z at
\* serialization, every record of the batch is transmitted with the
\* timestamp it holds, the placeholder included, and no record of the array
\* is rewritten.
C20_UnsyncedUnchanged ==
    (CallDone /\ ~ClockSynced) =>
        /\ CallArray = fn_args.batch
        /\ Len(fn_result[1].payload) = Len(fn_args.batch)
        /\ \A i \in 1 .. Len(fn_args.batch) :
               fn_result[1].payload[i] = fn_args.batch[i].timestamp

\* A batch of a placeholder record and a record stamped at the threshold
\* has been serialized with the wall clock exactly at the threshold.
C20_Witness ==
    /\ CallDone
    /\ fn_args.now_sec = SYNC_THRESHOLD
    /\ Len(fn_args.batch) = 2
    /\ fn_args.batch[1].timestamp = PlaceholderStamp
    /\ fn_args.batch[2].timestamp # PlaceholderStamp
    /\ fn_result[1].payload[1] = PlaceholderStamp
    /\ fn_result[1].payload[2] = fn_args.batch[2].timestamp

\* ----------------------------------------------------- locks and requests
Tasks == {"producer", "uploader"}

\* the container locks a task holds
HeldBy(t) ==
    (IF s_csv_mutex = t THEN {"csv"} ELSE {})
        \cup (IF s_status_mutex = t THEN {"status"} ELSE {})

\* the container lock a task is about to take with xSemaphoreTake
WaitsFor(t) ==
    IF t = "producer"
    THEN (IF pc_p = "idle" THEN {"csv"} ELSE {})
    ELSE IF pc_u \in {"read", "mark"} THEN {"csv"}
    ELSE IF pc_u \in {"status", "flush_clear", "admit"} THEN {"status"}
    ELSE {}

\* C21: no task holds more than one of the container locks (s_csv_mutex,
\* s_status_mutex) at a time; a task that asks for a lock holds none, so
\* no task waits for a lock held by a task that waits for a lock of the
\* first; and the holder of a lock can always reach its xSemaphoreGive.
C21_LockDiscipline ==
    /\ \A t \in Tasks : Cardinality(HeldBy(t)) <= 1
    /\ \A t \in Tasks : WaitsFor(t) # {} => HeldBy(t) = {}
    /\ ~ \E t, o \in Tasks :
           /\ t # o
           /\ WaitsFor(t) \cap HeldBy(o) # {}
           /\ WaitsFor(o) \cap HeldBy(t) # {}
    /\ s_csv_mutex = "producer" => ENABLED P_Body(FALSE)
    /\ s_csv_mutex = "uploader" => ENABLED (U_ReadBody \/ T_MarkBody)
    /\ s_status_mutex = "uploader" =>
           ENABLED (T_StatusBody \/ T_FlushClearBody \/ T_AdmitBody)

\* The producer is inside csv_logger_log_face with the Log Store lock while
\* the delivery task is inside add_to_offline_buffer with the status lock.
C21_Witness ==
    /\ s_csv_mutex = "producer"
    /\ s_status_mutex = "uploader"
    /\ pc_u = "admit_cs"
    /\ pc_p = "cs"

\* C22: whatever csv_uploader_start calls are made, at most one delivery
\* task exists, and at most one transport request (a flush of the Offline
\* Buffer or a primary attempt) is in progress at any time: the one the
\* task is waiting for.
C22_OneDelivery ==
    /\ task_count <= 1
    /\ in_flight \in {0, 1}
    /\ in_flight = 1 <=> pc_u \in {"flush_http", "send_http"}

\* A flush is in progress while the producer is inside csv_logger_log_face.
C22_Witness ==
    /\ task_count = 1
    /\ in_flight = 1
    /\ pc_u = "flush_http"
    /\ pc_p = "cs"

\* C24: while a transport request or a backoff sleep is in progress the
\* delivery task does not hold the Log Store lock; it holds that lock only
\* inside the critical sections of csv_logger_read_pending_logs and
\* csv_logger_mark_uploaded, so an append that finds the lock free of other
\* Log Store calls takes it at once.
C24_AppendNeverWaitsOnNetwork ==
    /\ (in_flight > 0 \/ pc_u = "backoff") => s_csv_mutex # "uploader"
    /\ s_csv_mutex = "uploader" <=> pc_u \in {"read_cs", "mark_cs"}
    /\ (pc_p = "idle" /\ ProducerRegistered /\ uptime < MaxEvents
            /\ pc_u \notin {"read_cs", "mark_cs"}) => ENABLED P_Take

\* The producer has taken the Log Store lock while the delivery task sleeps
\* between two attempts.
C24_Witness ==
    /\ pc_p = "cs"
    /\ s_csv_mutex = "producer"
    /\ pc_u = "backoff"
    /\ requests >= 1
    /\ uptime >= 1

\* A call of the Log Store that gives up at its xSemaphoreTake.
LockTimeoutStep == P_Timeout \/ U_ReadTimeout \/ U_MarkTimeout

\* C23: when csv_logger_log_face, csv_logger_read_pending_logs or
\* csv_logger_mark_uploaded cannot take s_csv_mutex within its wait, the
\* call ends with ESP_ERR_TIMEOUT and the Log Store (occupancy, every slot,
\* the image buffers) and the caller's snapshot are as before the call; the
\* lock stays with its holder.
C23_TimeoutAllOrNothing ==
    [][LockTimeoutStep =>
          /\ s_log_count' = s_log_count
          /\ s_log_buffer' = s_log_buffer
          /\ allocated' = allocated
          /\ free_calls' = free_calls
          /\ s_csv_mutex' = s_csv_mutex
          /\ logs' = logs
          /\ actual_count' = actual_count
          /\ lock_timed_out'
          /\ U_MarkTimeout => mark_err' = "timeout"]_vars

\* csv_logger_mark_uploaded has timed out while the producer holds the lock,
\* and the snapshot records are still pending.
C23_Witness ==
    /\ lock_timed_out
    /\ mark_err = "timeout"
    /\ pc_u = "wait"
    /\ s_csv_mutex = "producer"
    /\ s_log_count >= actual_count
    /\ actual_count >= 1
    /\ \A i \in 1 .. actual_count : Pending[i] = logs[i]

\* C25: csv_uploader_trigger_now never waits, and a trigger made while the
\* signal is pending changes nothing: the binary semaphore holds at most
\* one signal, whatever the number of triggers, and the Wait step that takes
\* it leaves none, so the triggers cause one immediate wake-up.
C25_TriggerIdempotent ==
    /\ [](s_trigger_sem \in {0, 1} /\ (pc_p = "trigger" => ENABLED P_Trigger))
    /\ [][P_Trigger =>
             /\ s_running => s_trigger_sem' = 1
             /\ s_trigger_sem = 1 =>
                    UNCHANGED <<store_vars, uploader_vars, task_vars, history_vars>>
             /\ pc_p' = "idle"]_vars
    /\ [][(pc_u = "wait" /\ pc_u' = "check") =>
             /\ s_trigger_sem' = 0
             /\ UNCHANGED <<store_vars, s_status, s_offline_buffer, logs>>]_vars

\* Two records have been appended and two triggers given, and the delivery
\* task has not taken the signal of the first.
C25_Witness ==
    /\ s_trigger_sem = 1
    /\ pc_p = "idle"
    /\ uptime >= 2
    /\ s_log_count >= 2
    /\ pc_u = "wait"
    /\ s_running
    /\ cycle = NoCycle
    /\ ~lock_timed_out

\* The snapshot logs[] holds records from the read of a cycle to the end of
\* that cycle.
SnapshotLive == pc_u \in {"flush", "loop", "backoff", "mark", "mark_cs"}

\* The record slots that hold the image pointer p: slots of the Log Store,
\* of the live snapshot and of the Offline Buffer.
ImageRefs(p) ==
    {<<"store", i>> : i \in {j \in Slots : j < s_log_count /\ s_log_buffer[j].image_ptr = p}}
    \cup {<<"snapshot", i>> : i \in {j \in 1 .. actual_count :
                                        SnapshotLive /\ logs[j].image_ptr = p}}
    \cup {<<"offline", i>> : i \in {j \in 1 .. s_offline_buffer_count :
                                       s_offline_buffer[j].image_ptr = p}}

\* C26: every allocated image buffer that has not been freed is referenced
\* by exactly one record slot, and no slot of the snapshot or of the Offline
\* Buffer refers to an image buffer that has been freed.
C26_SingleOwnership ==
    /\ \A p \in allocated : free_calls[p] = 0 => Cardinality(ImageRefs(p)) = 1
    /\ \A p \in allocated : free_calls[p] > 0 =>
           \A r \in ImageRefs(p) : r[1] \notin {"snapshot", "offline"}

\* A record of the Offline Buffer holds the address of an image buffer that
\* csv_logger_mark_uploaded has freed.
C26_Dangling ==
    \E j \in 1 .. s_offline_buffer_count :
        /\ s_offline_buffer[j].image_ptr # 0
        /\ free_calls[s_offline_buffer[j].image_ptr] = 1
        /\ s_offline_buffer[j].uptime_us \in released

\* C27: in a cycle that has a snapshot the Offline Buffer is flushed before
\* the first primary attempt (the flush is the first request of the cycle
\* whenever the cycle starts with records in the Offline Buffer, and no
\* flush follows a primary attempt), and whatever the flush returns the
\* task goes on to the retry loop with the snapshot untouched, zero
\* attempts made, and the first primary attempt ready to be sent.
C27_FlushFirst ==
    /\ [](/\ \A i \in 1 .. Len(cycle.events) : cycle.events[i].kind = "flush" => i = 1
          /\ pc_u = "flush" => cycle.events = <<>> /\ actual_count > 0
          /\ (Primaries # <<>> /\ cycle.ob0 # <<>>) => cycle.events[1].kind = "flush"
          /\ (pc_u = "loop" /\ retry_count = 0 /\ requests < MaxRequests) => ENABLED U_SendOk)
    /\ [][(pc_u = "flush" /\ pc_u' # "flush") =>
             /\ pc_u' = "loop"
             /\ retry_count' = 0
             /\ ~upload_success'
             /\ actual_count' = actual_count
             /\ logs' = logs]_vars

\* A cycle whose flush failed and whose first primary attempt was sent.
C27_Witness ==
    /\ Len(cycle.events) >= 2
    /\ cycle.events[1].kind = "flush"
    /\ ~cycle.events[1].ok
    /\ cycle.events[2].kind = "primary"
    /\ cycle.events[2].batch = SubSeq(logs, 1, actual_count)
    /\ s_offline_buffer_count > 0

\* C28: once every request is answered with HTTP 200 and the delivery task
\* keeps running, an Offline Buffer that holds records becomes empty, also
\* when the producer appends nothing more.
C28_EventuallyDrained ==
    (s_offline_buffer_count > 0) ~> (s_offline_buffer_count = 0)

\* The Offline Buffer holds the records of the failed cycle, the Log Store
\* is empty, the producer is idle and the delivery task is back at its wait.
C28_Stranded ==
    /\ s_offline_buffer_count > 0
    /\ Uptimes(s_offline_buffer) \cap delivered = {}
    /\ s_log_count = 0
    /\ s_csv_mutex = "none"
    /\ pc_p = "idle"
    /\ pc_u = "wait"
    /\ s_trigger_sem = 0
    /\ requests = 1

\* The records the Offline Buffer holds, oldest first.
OfflineRecords == SubSeq(s_offline_buffer, 1, s_offline_buffer_count)

\* No record occurs twice in the Offline Buffer.
OfflineDistinct ==
    \A i, j \in 1 .. s_offline_buffer_count :
        s_offline_buffer[i].uptime_us = s_offline_buffer[j].uptime_us => i = j

C30_BatchCap ==
    \A i \in 1 .. Len(cycle.events) :
        cycle.events[i].kind \in {"flush", "primary"}
            => Len(cycle.events[i].batch) <= s_config.max_batch_size

\* A primary attempt has carried a snapshot of the whole Log Store, which
\* is more than max_batch_size records.
C30_OverCap ==
    /\ Primaries # <<>>
    /\ Len(Primaries[1].batch) = LOGS_LEN
    /\ LOGS_LEN > s_config.max_batch_size
    /\ actual_count = LOGS_LEN

\* C31: in a cycle the k-th failed attempt, 1 <= k < max_retries, is
\* followed by a delay of min(base * 2^(k-1), cap) ms, so the first delay is
\* min(base, cap) and the delays never decrease; no delay follows the last
\* failed attempt.
C31_BackoffSchedule ==
    /\ Len(fn_result) < s_config.max_retries
    /\ (~upload_success /\ pc_u = "loop") => Len(fn_result) = retry_count
    /\ (~upload_success /\ pc_u = "wait") => Len(fn_result) = s_config.max_retries - 1
    /\ \A k \in 1 .. Len(fn_result) :
           /\ fn_result[k] = MinScaled(fn_args.base, fn_args.cap, k - 1)
           /\ k > 1 => fn_result[k - 1] <= fn_result[k]

\* With the shipped base and cap the task has slept 60000 ms after its 22nd
\* failed attempt and is given a negative delay after the 23rd.
C31_NegativeDelay ==
    /\ fn_args.base = RETRY_BACKOFF_BASE_MS
    /\ fn_args.cap = MAX_RETRY_DELAY_MS
    /\ Len(fn_result) = 23
    /\ fn_result[1] = RETRY_BACKOFF_BASE_MS
    /\ fn_result[22] = MAX_RETRY_DELAY_MS
    /\ fn_result[23] < 0

\* C32: the repair changes a transmitted timestamp only when the wall clock
\* is synchronized at serialization and the record carries the placeholder
\* of an unsynchronized capture; a record stamped by a synchronized clock is
\* transmitted with the timestamp it was given at capture.
C32_RepairOnlyUnsynced ==
    CallDone =>
        \A i \in 1 .. Len(fn_args.batch) :
            /\ fn_result[1].payload[i] # fn_args.batch[i].timestamp
                   => (ClockSynced /\ fn_args.batch[i].timestamp = PlaceholderStamp)
            /\ fn_args.batch[i].timestamp # PlaceholderStamp
                   => fn_result[1].payload[i] = fn_args.batch[i].timestamp

\* A record stamped 2025-12-01T12:00:00Z by the synchronized clock and
\* serialized 999,999 microseconds later, with the clock at
\* 2025-12-01T12:00:01Z, has been sent as 2025-12-01T12:00:01Z.
C32_GenuineRewritten ==
    /\ CallDone
    /\ fn_args.now_sec = 1764590401
    /\ Len(fn_args.batch) >= 1
    /\ fn_args.batch[1].timestamp = StampAt(1764590400)
    /\ fn_args.batch[1].timestamp =
           [year |-> 2025, mon |-> 12, mday |-> 1, hour |-> 12, min |-> 0,
            sec |-> 0, zone |-> "Z"]
    /\ fn_args.now_uptime - fn_args.batch[1].uptime_us = 999999
    /\ fn_result[1].payload[1] =
           [year |-> 2025, mon |-> 12, mday |-> 1, hour |-> 12, min |-> 0,
            sec |-> 1, zone |-> "Z"]

\* C33: a primary attempt, the time repair included, leaves the Log Store
\* as it was: the same number of records, each with the timestamp and the
\* other fields it had before the call; what the repair rewrites is the
\* snapshot logs[] of the delivery task, which is also what is transmitted.
C33_StoreUntouched ==
    (CallDone /\ fn_args.target = "logs") =>
        /\ s_log_count = Len(fn_args.batch)
        /\ Pending = fn_args.batch
        /\ \A i \in 1 .. Len(fn_args.batch) :
               /\ fn_result[1].payload[i] = logs[i].timestamp
               /\ [logs[i] EXCEPT !.timestamp = Pending[i].timestamp] = Pending[i]

\* A primary attempt has repaired the placeholder of the first snapshot
\* record; the stored record still carries the placeholder.
C33_Witness ==
    /\ CallDone
    /\ fn_args.target = "logs"
    /\ ClockSynced
    /\ s_log_count >= 1
    /\ s_log_buffer[0].timestamp = PlaceholderStamp
    /\ logs[1].uptime_us = s_log_buffer[0].uptime_us
    /\ logs[1].timestamp # PlaceholderStamp
    /\ fn_result[1].payload[1] = logs[1].timestamp

\* The record with uptime u is in the snapshot the delivery task holds.
InSnapshot(u) == SnapshotLive /\ u \in Uptimes(SubSeq(logs, 1, actual_count))

\* The record with uptime u was stored and has left the Log Store by the
\* eviction of csv_logger_log_face, not by csv_logger_mark_uploaded.
Evicted(u) == u <= uptime /\ u \notin Uptimes(Pending) /\ u \notin released

\* C34: a record that an append has stored is eventually in a snapshot of
\* the delivery task, unless it is evicted first (as long as the task has
\* requests left to send among those explored).
C34_NoLostWakeup ==
    \A u \in 1 .. MaxEvents :
        (u \in Uptimes(Pending))
            ~> (InSnapshot(u) \/ Evicted(u) \/ requests >= MaxRequests)

\* The sixth record was stored during the only cycle, whose snapshot held
\* the records 1 to 5, and was removed with them by the release; the task
\* is back at its wait with an empty Log Store.
C34_ReleasedUnseen ==
    /\ pc_u = "wait"
    /\ pc_p = "idle"
    /\ s_log_count = 0
    /\ requests = 1
    /\ uptime = 6
    /\ delivered = 1 .. 5
    /\ buffered = {}
    /\ 6 \in released
    /\ ~lock_timed_out

\* C35: whenever s_status_mutex is free, is_online implies that
\* consecutive_failures is 0 and last_error is empty, and
\* consecutive_failures is not above failed_uploads.
C35_StatusConsistent ==
    s_status_mutex = "none" =>
        /\ s_status.is_online =>
               (s_status.consecutive_failures = 0 /\ s_status.last_error = "")
        /\ s_status.consecutive_failures <= s_status.failed_uploads
        /\ s_status.consecutive_failures >= 0

\* A request has been answered with HTTP 200 after two reported failures.
C35_Witness ==
    /\ s_status_mutex = "none"
    /\ s_status.is_online
    /\ s_status.failed_uploads = 2
    /\ s_status.consecutive_failures = 0
    /\ s_status.last_error = ""
    /\ s_status.successful_uploads > 0

\* C36: whenever s_status_mutex is free, s_status.offline_buffer_count is
\* the number of records the Offline Buffer holds.
C36_OfflineCountMirror ==
    s_status_mutex = "none" =>
        /\ s_status.offline_buffer_count = s_offline_buffer_count
        /\ s_status.offline_buffer_count = Len(s_offline_buffer)

\* The first request, a primary attempt, failed and its snapshot was
\* admitted; the second, the flush of the next cycle, was answered with HTTP
\* 200 and the buffer cleared: the register shows 0 again.
C36_Witness ==
    /\ s_status_mutex = "none"
    /\ s_config.enable_offline_buffering
    /\ pc_u = "loop"
    /\ retry_count = 0
    /\ requests = 2
    /\ s_status.failed_uploads >= 1
    /\ s_status.successful_uploads >= 1
    /\ s_offline_buffer_count = 0
    /\ s_status.offline_buffer_count = 0

=============================================================================
